---- MODULE Spec2Model ----
(***************************************************************************)
(* A model of phpx: the run pipeline (internal/cli/run.go,                 *)
(* internal/executor/script.go, internal/sandbox), the interpreter         *)
(* resolver (internal/index, internal/php/resolver.go), the proxy domain   *)
(* filter (internal/proxy) and the archive extractor                       *)
(* (internal/php/downloader.go).                                           *)
(*                                                                         *)
(* Strings are sequences of one-character strings; a version constraint is *)
(* a sequence of symbols, a symbol being a pipe, a space or one comparator *)
(* such as >=8.3.0, which stands for the characters that spell it.         *)
(***************************************************************************)
EXTENDS Integers, Sequences, FiniteSets, TLC

\* ------------------------------------------------------------------ bounds
\* Longest list of requested extensions.
MaxExts == 2
\* Longest allow-host list given to the domain filter.
MaxHosts == 2
\* Longest host string queried at the domain filter (beyond the named samples).
MaxHostLen == 3
\* Most entries of one archive.
MaxEntries == 3
\* Longest entry path of an archive, in components.
MaxDepth == 2
\* Most outbound connections a child attempts.
MaxConns == 2
\* Longest file listing a tier's endpoint returns for this platform.
MaxListing == 2
\* Symlinks followed in one path lookup before it fails with ELOOP.
MaxFollow == 4
\* Longest constraint string handed to NormalizeConstraint, in symbols.
MaxConstraintLen == 3
\* Longest package list handed to DepsHash.
MaxPkgs == 2
\* The last hour of the clock.
MaxClock == 24
\* The most calls of Load and Refresh in one behaviour.
MaxStarts == 2

VARIABLES
    \* --- run pipeline (cli.runScript, executor.ScriptRunner.Run, sandbox) ---
    pc,         \* position of runScript
    flags,      \* [sandbox, offline, allowHost, timeout, verbose]: the flags of the command line
    host,       \* [os, bwrap, nsjail, unshare, sandboxExec, socat]: what the host offers
    req,        \* [constraint, extensions]: the merged metadata of the script
    idx,        \* the loaded index, NoIndex before index.Load
    res,        \* the Resolution, NoRes before php.Resolve
    err,        \* the error runScript returns, "" for none
    phpCache,   \* the <<version, tier>> pairs whose interpreter executable is in the cache
    downloads,  \* interpreter archive downloads started by this run
    sb,         \* the selected backend
    proxyMgr,   \* the proxy manager of the run, NoProxy if none was created
    child,      \* [started, net, outcome, code]: the confined child
    attempts,   \* outbound connections the child attempted
    proxySeen,  \* requests the in-process proxies received from the child
    rawConns,   \* outbound connections the child made without the proxy
    exitCode,   \* exit status the caller of phpx observes, NoExit while running
    \* --- domain filter (proxy.DomainFilter) ---
    filter,     \* [allowedDomains, wildcardDomains, allowAll]
    added,      \* the entries given to AddAllowed so far, as given
    query,      \* [asked, host, result]: the last IsAllowed call
    \* --- archive extraction (php.extractTarGz) ---
    fs,         \* the file system: physical path -> node
    made,       \* physical paths of the files, directories and links extraction created or wrote
    links,      \* physical paths of the symlinks extraction created
    nread,      \* entries read from the archive so far
    xerr,       \* "" while extracting, or the error extractTarGz returned
    \* --- constraint normalisation (composer.NormalizeConstraint) ---
    norm,       \* [c, n, once, out]: a constraint, applications so far, the results
    \* --- deps cache key (cache.DepsHash) ---
    hashes,     \* [p1, p2, h1, h2, done]: two package lists and their cache keys
    \* --- environment of the command (util.FilterEnv, sandbox.SetupCommand) ---
    envrun,     \* [environ, backend, cfg, socat, started, env]: one Execute and cmd.Env
    \* --- index cache (index.Load, Refresh, saveToCache, loadFromCache) ---
    clock,      \* the time in hours
    indexDir,   \* file name -> [exists, text]: the files of the index directory
    procs,      \* process -> [pc, op, path, idx, k, net, ok, seen]: its Load or Refresh
    committed,  \* the indexes that successful refreshes saved
    started,    \* the number of Load and Refresh calls so far
    \* --- cache leaves (runScript, Resolve, Download, DownloadComposer, InstallDeps) ---
    leaves,     \* [php, composer, deps]: the state of every leaf
    cruns,      \* process -> [pc, pkgs, fresh, ver, cv, net, saw, cached, ran]: its run
    \* --- proxy manager in ScriptRunner.Run (NewManager, Stop) ---
    manager,    \* the Manager: its three proxies, their listeners and the socket file
    mrun,       \* [pc, sandboxed, network, linux, timeout, result]: one Run
    \* --- pure functions, each with its input and result ---
    meta,       \* metadata.Parse
    inferred,   \* composer.InferBinary
    inst,       \* composer.InstallDeps / InstallTool: the environment of composer
    wrap,       \* the sh -c wrapper of BuildSocatBridgeCommand
    \* --- proxy sessions ---
    sess,       \* one tunnel: the two copy tasks and the client socket
    hreq,       \* one request of the HTTP proxy
    sock        \* one connection of the SOCKS5 proxy

runVars == <<pc, flags, host, req, idx, res, err, phpCache, downloads, sb, proxyMgr, child,
             attempts, proxySeen, rawConns, exitCode>>
filterVars == <<filter, added, query>>
tarVars == <<fs, made, links, nread, xerr>>
indexVars == <<clock, indexDir, procs, committed, started>>
cacheVars == <<leaves, cruns>>
secondVars == <<norm, hashes, envrun, indexVars, cacheVars>>
thirdVars == <<manager, mrun, meta, inferred, inst, wrap, sess, hreq, sock>>
laterVars == <<secondVars, thirdVars>>
vars == <<runVars, filterVars, tarVars, laterVars>>

\* ------------------------------------------------------------ generic helpers
RECURSIVE SeqsUpTo(_, _)
SeqsUpTo(S, n) ==
    IF n = 0 THEN {<<>>}
    ELSE LET shorter == SeqsUpTo(S, n - 1)
         IN  shorter \cup {Append(s, x) : s \in {t \in shorter : Len(t) = n - 1}, x \in S}

Range(s) == {s[i] : i \in 1..Len(s)}

RECURSIVE Concat(_)
Concat(ss) == IF ss = <<>> THEN <<>> ELSE Head(ss) \o Concat(Tail(ss))

HasPrefix(s, p) == Len(s) >= Len(p) /\ SubSeq(s, 1, Len(p)) = p
HasSuffix(s, p) == Len(s) >= Len(p) /\ SubSeq(s, Len(s) - Len(p) + 1, Len(s)) = p

\* ------------------------------------------------- versions and constraints
\* Interpreter versions MAJOR.MINOR.PATCH, as the version pattern of index.go
\* extracts them.
Versions == {<<8, 2, 27>>, <<8, 3, 17>>, <<8, 4, 17>>}

\* semver.Version.GreaterThan.
GreaterThan(v, w) ==
    \/ v[1] > w[1]
    \/ v[1] = w[1] /\ v[2] > w[2]
    \/ v[1] = w[1] /\ v[2] = w[2] /\ v[3] > w[3]

AtLeast(v, w) == v = w \/ GreaterThan(v, w)

\* The symbols of a constraint string.
Pipe == [k |-> "pipe", op |-> "", v |-> <<0, 0, 0>>]
Sp == [k |-> "sp", op |-> "", v |-> <<0, 0, 0>>]
Cmp(o, w) == [k |-> "cmp", op |-> o, v |-> w]

\* One comparator of the semver library, checked against a version.
CmpHolds(c, v) ==
    CASE c.op = ">=" -> AtLeast(v, c.v)
      [] c.op = "<" -> GreaterThan(c.v, v)
      [] c.op = "=" -> v = c.v
      [] c.op = "^" -> AtLeast(v, c.v) /\ v[1] = c.v[1]
      [] c.op = "~" -> AtLeast(v, c.v) /\ v[1] = c.v[1] /\ v[2] = c.v[2]
      [] OTHER -> FALSE

\* strings.Split(s, "||"): cut at each non-overlapping "||", left to right.
RECURSIVE SplitAcc(_, _, _)
SplitAcc(s, cur, parts) ==
    IF s = <<>> THEN Append(parts, cur)
    ELSE IF Len(s) >= 2 /\ s[1] = Pipe /\ s[2] = Pipe
         THEN SplitAcc(SubSeq(s, 3, Len(s)), <<>>, Append(parts, cur))
         ELSE SplitAcc(Tail(s), Append(cur, s[1]), parts)

SplitDoublePipe(s) == SplitAcc(s, <<>>, <<>>)

\* strings.ReplaceAll(part, "|", " || ").
RECURSIVE ReplaceSinglePipe(_)
ReplaceSinglePipe(s) ==
    IF s = <<>> THEN <<>>
    ELSE (IF s[1] = Pipe THEN <<Sp, Pipe, Pipe, Sp>> ELSE <<s[1]>>)
         \o ReplaceSinglePipe(Tail(s))

\* strings.Join(parts, " || ").
RECURSIVE JoinOr(_)
JoinOr(parts) ==
    IF Len(parts) = 0 THEN <<>>
    ELSE IF Len(parts) = 1 THEN parts[1]
    ELSE parts[1] \o <<Sp, Pipe, Pipe, Sp>> \o JoinOr(Tail(parts))

NormalizeConstraint(constraint) ==
    LET parts == SplitDoublePipe(constraint)
    IN  JoinOr([i \in 1..Len(parts) |-> ReplaceSinglePipe(parts[i])])

\* semver.NewConstraint: the alternatives are the parts between "||"; each
\* must be one or more comparators separated by blanks.
Comparators(part) == SelectSeq(part, LAMBDA x : x.k = "cmp")

ValidPart(part) ==
    /\ \A i \in 1..Len(part) : part[i].k # "pipe"
    /\ Comparators(part) # <<>>

NewConstraint(s) ==
    LET parts == SplitDoublePipe(s)
    IN  IF \A i \in 1..Len(parts) : ValidPart(parts[i])
        THEN [ok |-> TRUE, ors |-> [i \in 1..Len(parts) |-> Comparators(parts[i])]]
        ELSE [ok |-> FALSE, ors |-> <<>>]

\* semver.Constraints.Check.
Check(c, v) ==
    \E i \in 1..Len(c.ors) : \A j \in 1..Len(c.ors[i]) : CmpHolds(c.ors[i][j], v)

\* --------------------------------------------------------------- the index
Tiers == {"common", "bulk"}

\* Extension names: the ones a tier may provide, and one no tier provides.
ExtNames == {"curl", "intl"}
UnknownExt == "mongodb"

\* The de-duplication loop of fetchVersions (the seen map).
RECURSIVE Dedupe(_, _)
Dedupe(listing, seen) ==
    IF listing = <<>> THEN <<>>
    ELSE IF Head(listing) \in seen THEN Dedupe(Tail(listing), seen)
    ELSE <<Head(listing)>> \o Dedupe(Tail(listing), seen \cup {Head(listing)})

\* sort.Slice with GreaterThan as the order: descending.
RECURSIVE InsertDesc(_, _)
InsertDesc(sorted, v) ==
    IF sorted = <<>> THEN <<v>>
    ELSE IF GreaterThan(v, Head(sorted)) THEN <<v>> \o sorted
    ELSE <<Head(sorted)>> \o InsertDesc(Tail(sorted), v)

RECURSIVE SortDesc(_)
SortDesc(vs) == IF vs = <<>> THEN <<>> ELSE InsertDesc(SortDesc(Tail(vs)), Head(vs))

\* fetchVersions without its sort.Slice call.
fetchVersionsUnsorted(listing) == Dedupe(listing, {})

\* fetchVersions, from the versions named by the listing entries of this platform.
fetchVersions(listing) == SortDesc(Dedupe(listing, {}))

NoIndex == [CommonVersions |-> <<>>, BulkVersions |-> <<>>,
            CommonExtensions |-> {}, BulkExtensions |-> {}, loaded |-> FALSE]

\* The Index that Refresh builds from the four listings it fetched.
Refresh(commonList, bulkList, commonExt, bulkExt) ==
    [CommonVersions |-> fetchVersions(commonList), BulkVersions |-> fetchVersions(bulkList),
     CommonExtensions |-> commonExt, BulkExtensions |-> bulkExt, loaded |-> TRUE]

LatestVersion(versions) ==
    IF Len(versions) = 0 THEN [ok |-> FALSE, version |-> <<0, 0, 0>>]
    ELSE [ok |-> TRUE, version |-> versions[1]]

\* The loop of MatchingVersion: the first version the constraint accepts.
RECURSIVE FirstMatch(_, _)
FirstMatch(versions, c) ==
    IF versions = <<>> THEN [ok |-> FALSE, version |-> <<0, 0, 0>>]
    ELSE IF Check(c, Head(versions)) THEN [ok |-> TRUE, version |-> Head(versions)]
    ELSE FirstMatch(Tail(versions), c)

MatchingVersion(versions, constraint) ==
    LET c == NewConstraint(NormalizeConstraint(constraint))
    IN  IF ~c.ok THEN [ok |-> FALSE, version |-> <<0, 0, 0>>, err |-> "invalid constraint"]
        ELSE LET m == FirstMatch(versions, c)
             IN  IF m.ok THEN [ok |-> TRUE, version |-> m.version, err |-> ""]
                 ELSE [ok |-> FALSE, version |-> <<0, 0, 0>>, err |-> "no PHP version satisfies"]

HasExtension(i, ext, tier) ==
    IF tier = "common" THEN ext \in i.CommonExtensions ELSE ext \in i.BulkExtensions

\* The loop of RequiredTier over the requested extensions.
RECURSIVE TierLoop(_, _, _)
TierLoop(i, extensions, needsBulk) ==
    IF extensions = <<>>
    THEN [ok |-> TRUE, tier |-> IF needsBulk THEN "bulk" ELSE "common"]
    ELSE IF HasExtension(i, Head(extensions), "common")
         THEN TierLoop(i, Tail(extensions), needsBulk)
    ELSE IF HasExtension(i, Head(extensions), "bulk")
         THEN TierLoop(i, Tail(extensions), TRUE)
    ELSE [ok |-> FALSE, tier |-> ""]

\* RequiredTier that lets an extension of no tier pass as a common one.
RequiredTierLenient(i, extensions) == [ok |-> TRUE, tier |-> "common"]

RequiredTier(i, extensions) ==
    IF Len(extensions) = 0 THEN [ok |-> TRUE, tier |-> "common"]
    ELSE TierLoop(i, extensions, FALSE)

NoRes == [ok |-> FALSE, err |-> "", Version |-> <<0, 0, 0>>, Tier |-> "", Cached |-> FALSE]
ResErr(e) == [NoRes EXCEPT !.err = e]

\* php.Resolve; cached is the set of <<version, tier>> leaves whose executable exists.
Resolve(i, constraint, extensions, cached) ==
    LET t == RequiredTier(i, extensions)
    IN  IF ~t.ok THEN ResErr("extension not available in static PHP builds")
        ELSE LET versions == IF t.tier = "bulk" THEN i.BulkVersions ELSE i.CommonVersions
                 m == IF constraint = <<>>
                      THEN LET l == LatestVersion(versions)
                           IN  [ok |-> l.ok, version |-> l.version,
                                err |-> IF l.ok THEN "" ELSE "no PHP versions available"]
                      ELSE MatchingVersion(versions, constraint)
             IN  IF ~m.ok THEN ResErr(m.err)
                 ELSE [ok |-> TRUE, err |-> "", Version |-> m.version, Tier |-> t.tier,
                       Cached |-> <<m.version, t.tier>> \in cached]

\* ------------------------------------------------------- sandbox backends
Backends == {"bubblewrap", "nsjail", "macos", "linux-network", "macos-network", "none"}

\* IsSandboxed with the passthrough backend answering true as well.
IsSandboxedAlways(b) == TRUE

\* Sandbox.IsSandboxed of each backend.
IsSandboxed(b) == b # "none"

\* Sandbox.Available of each backend (runtime.GOOS and commandExists).
Available(h, b) ==
    CASE b = "bubblewrap" -> h.os = "linux" /\ h.bwrap
      [] b = "nsjail" -> h.os = "linux" /\ h.nsjail
      [] b = "linux-network" -> h.os = "linux" /\ h.unshare
      [] b = "macos" -> h.os = "darwin" /\ h.sandboxExec
      [] b = "macos-network" -> h.os = "darwin" /\ h.sandboxExec
      [] OTHER -> TRUE

Detect(h) ==
    IF h.os = "linux" /\ Available(h, "bubblewrap") THEN "bubblewrap"
    ELSE IF h.os = "linux" /\ Available(h, "nsjail") THEN "nsjail"
    ELSE IF h.os = "darwin" /\ Available(h, "macos") THEN "macos"
    ELSE "none"

DetectNetworkOnly(h) ==
    IF h.os = "linux" /\ Available(h, "linux-network") THEN "linux-network"
    ELSE IF h.os = "darwin" /\ Available(h, "macos-network") THEN "macos-network"
    ELSE "none"

hasSocat(h) == h.socat

\* What the command a backend builds lets the child reach:
\*   "none"       no network at all (own network namespace, or network* denied),
\*   "bridge"     own network namespace plus the socat bridge to the proxy socket,
\*   "proxyonly"  outbound only to the proxy port on localhost and to Unix sockets,
\*   "host"       the network of the host, unrestricted.
\* cfg is the sandbox.Config: Network, ProxySocketPath # "", ProxyPort > 0.
Bridged(h, cfg) == cfg.Network /\ cfg.ProxySocketPath /\ hasSocat(h)

BubblewrapNet(h, cfg) == IF Bridged(h, cfg) THEN "bridge" ELSE "none"

\* nsjail given --disable_clone_newnet whatever cfg.Network is.
NsjailNetShared(h, cfg) == "host"

NsjailNet(h, cfg) == IF cfg.Network THEN "host" ELSE "none"

LinuxNetworkNet(h, cfg) ==
    IF Bridged(h, cfg) THEN "bridge"
    ELSE IF cfg.Network THEN "host"
    ELSE "none"

MacOSNet(h, cfg) == IF cfg.Network THEN "proxyonly" ELSE "none"

ChildNet(b, h, cfg) ==
    CASE b = "bubblewrap" -> BubblewrapNet(h, cfg)
      [] b = "nsjail" -> NsjailNet(h, cfg)
      [] b = "linux-network" -> LinuxNetworkNet(h, cfg)
      [] b = "macos" -> MacOSNet(h, cfg)
      [] b = "macos-network" -> MacOSNet(h, cfg)
      [] OTHER -> "host"

\* ---------------------------------------------------------- exit statuses
\* Exit codes the script may end with.
ExitCodes == {0, 1, 42}

\* What cmd.Run returns: nil, an *exec.ExitError carrying the code (-1 when
\* the process was killed by a signal), or another error when it never started.
RunError(c) ==
    CASE c.status = "exited" /\ c.code = 0 -> [kind |-> "nil", code |-> 0]
      [] c.status = "exited" -> [kind |-> "ExitError", code |-> c.code]
      [] c.status = "killed" -> [kind |-> "ExitError", code |-> 0 - 1]
      [] OTHER -> [kind |-> "error", code |-> 0]

\* BuildResult without the *exec.ExitError branch.
BuildResultNoExitError(e) == [ExitCode |-> 0, failed |-> e.kind # "nil"]

\* sandbox.BuildResult: the exit code of the Result and whether an error is returned.
BuildResult(e) ==
    IF e.kind = "ExitError" THEN [ExitCode |-> e.code, failed |-> FALSE]
    ELSE IF e.kind # "nil" THEN [ExitCode |-> 0, failed |-> TRUE]
    ELSE [ExitCode |-> 0, failed |-> FALSE]

\* The status the parent of phpx sees for os.Exit(code): the low eight bits.
Status(code) == code % 256

\* The end of runScript and main: an error exits 1, otherwise the exit code
\* of the Result is passed to os.Exit, or main returns (status 0) when it is 0.
ObservedExit(r) == IF r.failed THEN 1 ELSE Status(r.ExitCode)

\* Whether phpx itself wrote a diagnostic to stderr by the end of the run: the
\* error main prints when runScript returns one, or the "[phpx] Exit code"
\* line of a verbose run.
Diagnostic(e, verbose) == e # "" \/ verbose

\* ------------------------------------------------------- the run pipeline
NoExit == 0 - 1
NoProxy == [created |-> FALSE, running |-> FALSE, socks |-> FALSE, socket |-> FALSE]
NoChild == [started |-> FALSE, net |-> "none", status |-> "none", code |-> 0]

Hosts ==
    [os : {"linux", "darwin", "other"}, bwrap : BOOLEAN, nsjail : BOOLEAN,
     unshare : BOOLEAN, sandboxExec : BOOLEAN, socat : BOOLEAN]

\* --sandbox, --offline, --allow-host non-empty, --timeout above 0 (the default
\* is 30) and --verbose.
Flags ==
    [sandbox : BOOLEAN, offline : BOOLEAN, allowHost : BOOLEAN, timeout : BOOLEAN,
     verbose : BOOLEAN]

\* The merged metadata (script block plus --php, --extensions, --packages) of a run.
RunRequests ==
    {[constraint |-> <<>>, extensions |-> <<>>, packages |-> FALSE],
     [constraint |-> <<Cmp(">=", <<9, 0, 0>>)>>, extensions |-> <<>>, packages |-> FALSE],
     [constraint |-> <<Cmp("^", <<8, 2, 0>>)>>, extensions |-> <<"intl">>, packages |-> TRUE],
     [constraint |-> <<>>, extensions |-> <<"curl", UnknownExt>>, packages |-> FALSE]}

\* The indexes index.Load hands to a run.
RunIndexes ==
    {Refresh(<<<<8, 3, 17>>, <<8, 4, 17>>>>, <<<<8, 4, 17>>, <<8, 2, 27>>>>,
             {"curl"}, {"curl", "intl"}),
     Refresh(<<>>, <<>>, {"curl"}, {"curl"})}

RunIdle ==
    /\ pc = "idle"
    /\ flags = [sandbox |-> FALSE, offline |-> FALSE, allowHost |-> FALSE,
                timeout |-> FALSE, verbose |-> FALSE]
    /\ host = [os |-> "other", bwrap |-> FALSE, nsjail |-> FALSE, unshare |-> FALSE,
               sandboxExec |-> FALSE, socat |-> FALSE]
    /\ req = [constraint |-> <<>>, extensions |-> <<>>, packages |-> FALSE]
    /\ idx = NoIndex
    /\ res = NoRes
    /\ err = ""
    /\ phpCache = {}
    /\ downloads = 0
    /\ sb = "unset"
    /\ proxyMgr = NoProxy
    /\ child = NoChild
    /\ attempts = 0
    /\ proxySeen = 0
    /\ rawConns = 0
    /\ exitCode = NoExit

RunInit ==
    /\ pc = "start"
    /\ flags \in Flags
    /\ host \in Hosts
    /\ req \in RunRequests
    /\ idx = NoIndex
    /\ res = NoRes
    /\ err = ""
    /\ phpCache \in {{}, Versions \X Tiers}
    /\ downloads = 0
    /\ sb = "unset"
    /\ proxyMgr = NoProxy
    /\ child = NoChild
    /\ attempts = 0
    /\ proxySeen = 0
    /\ rawConns = 0
    /\ exitCode = NoExit

\* runScript returns e; main prints it and calls os.Exit(1).
Fail(e) ==
    /\ pc' = "done"
    /\ err' = e
    /\ exitCode' = 1

\* index.Load fails (the index cannot be fetched or read).
LoadIndexFails ==
    /\ pc = "start"
    /\ Fail("failed to load index")
    /\ UNCHANGED <<flags, host, req, idx, res, phpCache, downloads, sb, proxyMgr, child,
                   attempts, proxySeen, rawConns>>
    /\ UNCHANGED <<filterVars, tarVars, laterVars>>

LoadIndex ==
    /\ pc = "start"
    /\ \E i \in RunIndexes : idx' = i
    /\ pc' = "loaded"
    /\ UNCHANGED <<flags, host, req, res, err, phpCache, downloads, sb, proxyMgr, child,
                   attempts, proxySeen, rawConns, exitCode>>
    /\ UNCHANGED <<filterVars, tarVars, laterVars>>

\* php.Resolve and the error return after it.
DoResolve ==
    /\ pc = "loaded"
    /\ LET r == Resolve(idx, req.constraint, req.extensions, phpCache)
       IN  /\ res' = r
           /\ IF r.ok THEN pc' = "resolved" /\ UNCHANGED <<err, exitCode>>
              ELSE Fail(r.err)
    /\ UNCHANGED <<flags, host, req, idx, phpCache, downloads, sb, proxyMgr, child,
                   attempts, proxySeen, rawConns>>
    /\ UNCHANGED <<filterVars, tarVars, laterVars>>

\* php.EnsurePHP: nothing when the resolution is cached, else Download.
EnsurePHP ==
    /\ pc = "resolved"
    /\ IF res.Cached
       THEN pc' = "php" /\ UNCHANGED <<err, exitCode, downloads, phpCache>>
       ELSE /\ downloads' = downloads + 1
            /\ \/ /\ phpCache' = phpCache \cup {<<res.Version, res.Tier>>}
                  /\ pc' = "php"
                  /\ UNCHANGED <<err, exitCode>>
               \/ /\ Fail("failed to download PHP")
                  /\ UNCHANGED phpCache
    /\ UNCHANGED <<flags, host, req, idx, res, sb, proxyMgr, child, attempts, proxySeen, rawConns>>
    /\ UNCHANGED <<filterVars, tarVars, laterVars>>

\* The dependency block of runScript: skipped without packages, else the
\* install succeeds or runScript returns its error.
InstallDeps ==
    /\ pc = "php"
    /\ \/ pc' = "deps" /\ UNCHANGED <<err, exitCode>>
       \/ req.packages /\ Fail("failed to install dependencies")
    /\ UNCHANGED <<flags, host, req, idx, res, phpCache, downloads, sb, proxyMgr, child,
                   attempts, proxySeen, rawConns>>
    /\ UNCHANGED <<filterVars, tarVars, laterVars>>

\* "Determine sandbox" in runScript.
DetermineSandbox ==
    /\ pc = "deps"
    /\ LET b == IF flags.sandbox THEN Detect(host)
                ELSE IF flags.offline \/ flags.allowHost THEN DetectNetworkOnly(host)
                ELSE "none"
           requested == flags.sandbox \/ flags.offline \/ flags.allowHost
       IN  /\ sb' = b
           /\ IF requested /\ ~IsSandboxed(b)
              THEN Fail("no sandbox is available on this system")
              ELSE pc' = "sandbox" /\ UNCHANGED <<err, exitCode>>
    /\ UNCHANGED <<flags, host, req, idx, res, phpCache, downloads, proxyMgr, child,
                   attempts, proxySeen, rawConns>>
    /\ UNCHANGED <<filterVars, tarVars, laterVars>>

\* network := !runOffline, as runScript hands it to the executor.
Network == ~flags.offline

\* needsProxy of ScriptRunner.Run.
needsProxy == IsSandboxed(sb) /\ Network

\* The sandbox.Config fields the backends read for the network.
SandboxCfg ==
    [Network |-> Network, ProxySocketPath |-> proxyMgr.socket, ProxyPort |-> proxyMgr.created]

\* The first half of ScriptRunner.Run: proxy.NewManager when a proxy is
\* needed. The HTTP proxy must start; a SOCKS5 failure is a warning; the Unix
\* socket proxy is tried on Linux only and may fail.
StartProxy ==
    /\ pc = "sandbox"
    /\ IF needsProxy
       THEN \/ /\ \E socks \in BOOLEAN, socket \in BOOLEAN :
                     /\ socket => host.os = "linux"
                     /\ proxyMgr' = [created |-> TRUE, running |-> TRUE,
                                     socks |-> socks, socket |-> socket]
               /\ pc' = "proxy"
               /\ UNCHANGED <<err, exitCode>>
            \/ /\ Fail("failed to start proxy")
               /\ UNCHANGED proxyMgr
       ELSE pc' = "proxy" /\ UNCHANGED <<err, exitCode, proxyMgr>>
    /\ UNCHANGED <<flags, host, req, idx, res, phpCache, downloads, sb, child,
                   attempts, proxySeen, rawConns>>
    /\ UNCHANGED <<filterVars, tarVars, laterVars>>

\* sb.Execute up to cmd.Run starting the command the backend built.
Execute ==
    /\ pc = "proxy"
    /\ child' = [started |-> TRUE, net |-> ChildNet(sb, host, SandboxCfg),
                 status |-> "running", code |-> 0]
    /\ pc' = "running"
    /\ UNCHANGED <<flags, host, req, idx, res, err, phpCache, downloads, sb, proxyMgr,
                   attempts, proxySeen, rawConns, exitCode>>
    /\ UNCHANGED <<filterVars, tarVars, laterVars>>

\* cmd.Run cannot start the command: BuildResult returns the error, the
\* deferred proxyMgr.Stop runs, Run wraps the error and main exits 1.
ExecuteFails ==
    /\ pc = "proxy"
    /\ child' = [NoChild EXCEPT !.status = "startfail"]
    /\ proxyMgr' = [proxyMgr EXCEPT !.running = FALSE]
    /\ pc' = "done"
    /\ err' = "execution failed"
    /\ exitCode' = ObservedExit(BuildResult(RunError(child')))
    /\ UNCHANGED <<flags, host, req, idx, res, phpCache, downloads, sb, attempts, proxySeen, rawConns>>
    /\ UNCHANGED <<filterVars, tarVars, laterVars>>

\* The child attempts an outbound connection. Without network the attempt
\* fails; through the bridge or under the proxy-only policy it can only reach
\* the proxy; on the host network it connects directly, or through the proxy
\* the environment hints at.
ChildConnect ==
    /\ pc = "running"
    /\ attempts < MaxConns
    /\ attempts' = attempts + 1
    /\ \/ /\ child.net = "none"
          /\ UNCHANGED <<proxySeen, rawConns>>
       \/ /\ child.net \in {"bridge", "proxyonly"} \/ (child.net = "host" /\ proxyMgr.running)
          /\ proxySeen' = proxySeen + 1
          /\ UNCHANGED rawConns
       \/ /\ child.net = "host"
          /\ rawConns' = rawConns + 1
          /\ UNCHANGED proxySeen
    /\ UNCHANGED <<pc, flags, host, req, idx, res, err, phpCache, downloads, sb, proxyMgr,
                   child, exitCode>>
    /\ UNCHANGED <<filterVars, tarVars, laterVars>>

\* The script ends with an exit code; the wrappers (sh -c bridge, bwrap,
\* nsjail, unshare, sandbox-exec) end with the code of the command they ran.
ChildExit ==
    /\ pc = "running"
    /\ \E c \in ExitCodes : child' = [child EXCEPT !.status = "exited", !.code = c]
    /\ pc' = "exited"
    /\ UNCHANGED <<flags, host, req, idx, res, err, phpCache, downloads, sb, proxyMgr,
                   attempts, proxySeen, rawConns, exitCode>>
    /\ UNCHANGED <<filterVars, tarVars, laterVars>>

\* The wall timeout elapses: the context made by context.WithTimeout is
\* cancelled and exec.CommandContext kills the command.
ChildKilled ==
    /\ pc = "running"
    /\ flags.timeout
    /\ child' = [child EXCEPT !.status = "killed"]
    /\ pc' = "exited"
    /\ UNCHANGED <<flags, host, req, idx, res, err, phpCache, downloads, sb, proxyMgr,
                   attempts, proxySeen, rawConns, exitCode>>
    /\ UNCHANGED <<filterVars, tarVars, laterVars>>

\* cmd.Run returned: BuildResult, the deferred proxyMgr.Stop, and the end of
\* runScript (os.Exit with the exit code of the Result when it is not 0).
Finish ==
    /\ pc = "exited"
    /\ proxyMgr' = [proxyMgr EXCEPT !.running = FALSE]
    /\ exitCode' = ObservedExit(BuildResult(RunError(child)))
    /\ pc' = "done"
    /\ UNCHANGED <<flags, host, req, idx, res, err, phpCache, downloads, sb, child,
                   attempts, proxySeen, rawConns>>
    /\ UNCHANGED <<filterVars, tarVars, laterVars>>

\* ------------------------------------------------------- the domain filter
UpperLetters == <<"A", "B", "C", "D", "E", "F", "G", "H", "I", "J", "K", "L", "M",
                  "N", "O", "P", "Q", "R", "S", "T", "U", "V", "W", "X", "Y", "Z">>
LowerLetters == <<"a", "b", "c", "d", "e", "f", "g", "h", "i", "j", "k", "l", "m",
                  "n", "o", "p", "q", "r", "s", "t", "u", "v", "w", "x", "y", "z">>

LowerChar(c) ==
    IF \E i \in 1..Len(UpperLetters) : UpperLetters[i] = c
    THEN LowerLetters[CHOOSE i \in 1..Len(UpperLetters) : UpperLetters[i] = c]
    ELSE c

\* strings.ToLower.
ToLower(str) == [i \in 1..Len(str) |-> LowerChar(str[i])]

\* strings.TrimSpace.
RECURSIVE TrimLeft(_)
TrimLeft(str) == IF str # <<>> /\ Head(str) = " " THEN TrimLeft(Tail(str)) ELSE str

RECURSIVE TrimRight(_)
TrimRight(str) ==
    IF str # <<>> /\ str[Len(str)] = " " THEN TrimRight(SubSeq(str, 1, Len(str) - 1)) ELSE str

TrimSpace(str) == TrimRight(TrimLeft(str))

\* strings.LastIndex(str, c), 1-based; 0 when c does not occur.
RECURSIVE LastIndex(_, _)
LastIndex(str, c) ==
    IF str = <<>> THEN 0
    ELSE IF str[Len(str)] = c THEN Len(str)
    ELSE LastIndex(SubSeq(str, 1, Len(str) - 1), c)

NewDomainFilter == [allowedDomains |-> <<>>, wildcardDomains |-> <<>>, allowAll |-> FALSE]

\* DomainFilter.AllowAll.
AllowAll(f) == [f EXCEPT !.allowAll = TRUE]

\* AddAllowed storing a wildcard without its dot (domain[2:]).
AddAllowedNoDot(f, domain) ==
    LET d == ToLower(TrimSpace(domain))
    IN  IF d = <<>> THEN f
        ELSE IF HasPrefix(d, <<"*", ".">>)
             THEN [f EXCEPT !.wildcardDomains = Append(@, Tail(Tail(d)))]
             ELSE [f EXCEPT !.allowedDomains = Append(@, d)]

\* DomainFilter.AddAllowed.
AddAllowed(f, domain) ==
    LET d == ToLower(TrimSpace(domain))
    IN  IF d = <<>> THEN f
        ELSE IF HasPrefix(d, <<"*", ".">>)
             THEN [f EXCEPT !.wildcardDomains = Append(@, Tail(d))]
             ELSE [f EXCEPT !.allowedDomains = Append(@, d)]

\* The two loops of IsAllowed.
RECURSIVE AnyEqual(_, _)
AnyEqual(list, h) ==
    IF list = <<>> THEN FALSE
    ELSE IF h = Head(list) THEN TRUE
    ELSE AnyEqual(Tail(list), h)

RECURSIVE AnySuffix(_, _)
AnySuffix(list, h) ==
    IF list = <<>> THEN FALSE
    ELSE IF HasSuffix(h, Head(list)) THEN TRUE
    ELSE AnySuffix(Tail(list), h)

\* DomainFilter.IsAllowed.
IsAllowed(f, hostport) ==
    LET i == LastIndex(hostport, ":")
        stripped == IF i # 0 THEN SubSeq(hostport, 1, i - 1) ELSE hostport
        h == ToLower(stripped)
    IN  IF f.allowAll THEN TRUE
        ELSE IF AnyEqual(f.allowedDomains, h) THEN TRUE
        ELSE AnySuffix(f.wildcardDomains, h)

\* The example of the allow-host documentation.
WildExampleCom == <<"*", ".", "e", "x", "a", "m", "p", "l", "e", ".", "c", "o", "m">>
ApiExampleCom == <<"a", "p", "i", ".", "e", "x", "a", "m", "p", "l", "e", ".", "c", "o", "m">>
ExampleCom == <<"e", "x", "a", "m", "p", "l", "e", ".", "c", "o", "m">>

\* Entries given to --allow-host.
EntrySamples ==
    {<<"a">>, <<"A">>, <<" ", "a", " ">>, <<" ">>, <<"*">>, <<"*", ".">>, <<"*", "a">>,
     <<"*", ".", "a">>, <<"*", ".", "A">>, <<".", "a">>, <<"a", ".", "a">>,
     <<"a", ":", "a">>, WildExampleCom}

HostChars == {"a", "A", ".", ":"}

\* Hosts asked of the filter: every string over HostChars up to MaxHostLen, and the examples.
HostSamples ==
    SeqsUpTo(HostChars, MaxHostLen)
        \cup {ApiExampleCom, ExampleCom, ApiExampleCom \o <<":", "4", "4", "3">>,
              <<"A", "P", "I">> \o SubSeq(ApiExampleCom, 4, Len(ApiExampleCom))}

NoQuery == [asked |-> FALSE, host |-> <<>>, result |-> FALSE]

FilterIdle ==
    /\ filter = NewDomainFilter
    /\ added = <<>>
    /\ query = NoQuery

\* proxy.NewManager with an empty AllowedHosts list. The filter is built
\* before the proxies start, so before any query.
FilterAllowAll ==
    /\ ~query.asked
    /\ added = <<>>
    /\ ~filter.allowAll
    /\ filter' = AllowAll(filter)
    /\ UNCHANGED <<added, query>>
    /\ UNCHANGED <<runVars, tarVars, laterVars>>

\* proxy.NewManager adding the next entry of AllowedHosts.
FilterAdd ==
    /\ ~query.asked
    /\ ~filter.allowAll
    /\ Len(added) < MaxHosts
    /\ \E e \in EntrySamples :
          /\ filter' = AddAllowed(filter, e)
          /\ added' = Append(added, e)
    /\ UNCHANGED query
    /\ UNCHANGED <<runVars, tarVars, laterVars>>

\* A proxy handler asks the filter about the host of a request.
FilterQuery ==
    /\ ~query.asked
    /\ \E h \in HostSamples :
          query' = [asked |-> TRUE, host |-> h, result |-> IsAllowed(filter, h)]
    /\ UNCHANGED <<filter, added>>
    /\ UNCHANGED <<runVars, tarVars, laterVars>>

\* ---------------------------------------------------- archive extraction
\* A path is the sequence of its components below the root directory.
Names == {"a", "escape"}
Up == ".."

\* destDir of extractTarGz, the bin directory of the cache leaf.
Dest == <<"d">>

\* filepath.Clean of an absolute path: ".." drops the component before it.
RECURSIVE CleanAcc(_, _)
CleanAcc(comps, acc) ==
    IF comps = <<>> THEN acc
    ELSE IF Head(comps) = Up
         THEN CleanAcc(Tail(comps), IF acc = <<>> THEN <<>> ELSE SubSeq(acc, 1, Len(acc) - 1))
         ELSE CleanAcc(Tail(comps), Append(acc, Head(comps)))

\* filepath.Join(dir, name) for an absolute clean dir.
Join(dir, name) == CleanAcc(name, dir)

\* filepath.Dir of an absolute clean path.
DirOf(path) == IF path = <<>> THEN <<>> ELSE SubSeq(path, 1, Len(path) - 1)

\* filepath.Rel(base, target) of absolute clean paths: one ".." for each
\* component of base off the common prefix, then the rest of target.
RECURSIVE CommonLen(_, _)
CommonLen(p, q) ==
    IF p = <<>> \/ q = <<>> \/ Head(p) # Head(q) THEN 0
    ELSE 1 + CommonLen(Tail(p), Tail(q))

Rel(base, target) ==
    LET n == CommonLen(base, target)
    IN  [i \in 1..(Len(base) - n) |-> Up] \o SubSeq(target, n + 1, Len(target))

\* isPathWithinDir: the relative path does not start with "..".
isPathWithinDir(target, baseDir) ==
    LET rel == Rel(baseDir, target)
    IN  ~(rel # <<>> /\ rel[1] = Up)

DirNode == [t |-> "dir", abs |-> FALSE, to |-> <<>>]
FileNode == [t |-> "file", abs |-> FALSE, to |-> <<>>]
LinkNode(abs, to) == [t |-> "link", abs |-> abs, to |-> to]

\* The path lookup of the kernel from directory cur: ".." is the parent of
\* the directory reached, a symlink is replaced by its contents, and the last
\* component is followed only when followLast. ok is FALSE for ENOENT,
\* ENOTDIR and ELOOP; exists tells whether the last component was found.
RECURSIVE Walk(_, _, _, _, _)
Walk(f, cur, rest, fuel, followLast) ==
    IF rest = <<>> THEN [ok |-> TRUE, path |-> cur, exists |-> TRUE]
    ELSE LET c == Head(rest)
             p == Append(cur, c)
             last == Len(rest) = 1
         IN  IF c = Up THEN Walk(f, DirOf(cur), Tail(rest), fuel, followLast)
             ELSE IF p \notin DOMAIN f
                  THEN [ok |-> last, path |-> p, exists |-> FALSE]
             ELSE IF f[p].t = "dir" THEN Walk(f, p, Tail(rest), fuel, followLast)
             ELSE IF f[p].t = "file" THEN [ok |-> last, path |-> p, exists |-> TRUE]
             ELSE IF last /\ ~followLast THEN [ok |-> TRUE, path |-> p, exists |-> TRUE]
             ELSE IF fuel = 0 THEN [ok |-> FALSE, path |-> p, exists |-> FALSE]
             ELSE Walk(f, IF f[p].abs THEN <<>> ELSE cur, f[p].to \o Tail(rest),
                       fuel - 1, followLast)

\* os.Stat and os.Lstat of an absolute path.
Stat(f, path) == Walk(f, <<>>, path, MaxFollow, TRUE)
Lstat(f, path) == Walk(f, <<>>, path, MaxFollow, FALSE)

\* os.MkdirAll: nothing if path is a directory, an error if it is something
\* else, otherwise the parent first and then os.Mkdir.
RECURSIVE MkdirAll(_, _, _)
MkdirAll(f, m, path) ==
    LET st == Stat(f, path)
    IN  IF st.ok /\ st.exists
        THEN [ok |-> f[st.path].t = "dir", fs |-> f, made |-> m]
        ELSE LET up == IF path = <<>> THEN [ok |-> TRUE, fs |-> f, made |-> m]
                       ELSE MkdirAll(f, m, DirOf(path))
                 at == Lstat(up.fs, path)
             IN  IF ~up.ok THEN up
                 ELSE IF at.ok /\ ~at.exists
                      THEN [ok |-> TRUE, fs |-> up.fs @@ (at.path :> DirNode),
                            made |-> up.made \cup {at.path}]
                 ELSE [ok |-> FALSE, fs |-> up.fs, made |-> up.made]

\* os.OpenFile(target, O_CREATE|O_WRONLY|O_TRUNC) and the copy into it: the
\* last component is followed, and a missing file is created where it leads.
OpenFile(f, m, target) ==
    LET w == Stat(f, target)
    IN  IF ~w.ok THEN [ok |-> FALSE, fs |-> f, made |-> m]
        ELSE IF w.exists
             THEN [ok |-> f[w.path].t = "file", fs |-> f,
                   made |-> IF f[w.path].t = "file" THEN m \cup {w.path} ELSE m]
        ELSE [ok |-> TRUE, fs |-> f @@ (w.path :> FileNode), made |-> m \cup {w.path}]

\* os.Symlink(linkname, target): fails if target exists (not followed) or
\* linkname is empty.
Symlink(f, m, abs, to, target) ==
    LET w == Lstat(f, target)
    IN  IF w.ok /\ ~w.exists /\ (abs \/ to # <<>>)
        THEN [ok |-> TRUE, fs |-> f @@ (w.path :> LinkNode(abs, to)),
              made |-> m \cup {w.path}, at |-> w.path]
        ELSE [ok |-> FALSE, fs |-> f, made |-> m, at |-> <<>>]

\* The file system before extraction: the root and the destination directory
\* (Download creates it before it extracts).
InitFS == (<<>> :> DirNode) @@ (Dest :> DirNode)

\* header.Name of an entry: up to MaxDepth components, ".." among them.
EntryNames == SeqsUpTo(Names \cup {Up}, MaxDepth)

\* header.Linkname of a symlink entry: relative or absolute.
LinkNames ==
    {[abs |-> FALSE, to |-> <<"a">>], [abs |-> FALSE, to |-> <<Up>>],
     [abs |-> FALSE, to |-> <<"a", Up>>], [abs |-> FALSE, to |-> <<Up, Up>>],
     [abs |-> TRUE, to |-> <<>>], [abs |-> TRUE, to |-> <<"d", "a">>]}

NoXerr == [kind |-> "", name |-> <<>>]

TarIdle ==
    /\ fs = InitFS
    /\ made = {}
    /\ links = {}
    /\ nread = 0
    /\ xerr = [kind |-> "idle", name |-> <<>>]

TarInit ==
    /\ fs = InitFS
    /\ made = {}
    /\ links = {}
    /\ nread = 0
    /\ xerr = NoXerr

\* target of an entry and the traversal check on it.
Target(name) == Join(Dest, name)

\* The loop body of extractTarGz for an entry whose path fails the check.
ExtractRejected ==
    /\ xerr = NoXerr
    /\ nread < MaxEntries
    /\ \E name \in EntryNames :
          /\ ~isPathWithinDir(Target(name), Dest)
          /\ xerr' = [kind |-> "invalid tar entry path", name |-> name]
    /\ nread' = nread + 1
    /\ UNCHANGED <<fs, made, links>>
    /\ UNCHANGED <<runVars, filterVars, laterVars>>

\* The loop body for a tar.TypeDir entry.
ExtractDir ==
    /\ xerr = NoXerr
    /\ nread < MaxEntries
    /\ \E name \in EntryNames :
          /\ isPathWithinDir(Target(name), Dest)
          /\ LET r == MkdirAll(fs, made, Target(name))
             IN  /\ fs' = r.fs
                 /\ made' = r.made
                 /\ xerr' = IF r.ok THEN NoXerr ELSE [kind |-> "mkdir", name |-> name]
    /\ nread' = nread + 1
    /\ UNCHANGED links
    /\ UNCHANGED <<runVars, filterVars, laterVars>>

\* The loop body for a tar.TypeReg entry.
ExtractFile ==
    /\ xerr = NoXerr
    /\ nread < MaxEntries
    /\ \E name \in EntryNames :
          /\ isPathWithinDir(Target(name), Dest)
          /\ LET d == MkdirAll(fs, made, DirOf(Target(name)))
                 r == IF d.ok THEN OpenFile(d.fs, d.made, Target(name)) ELSE d
             IN  /\ fs' = r.fs
                 /\ made' = r.made
                 /\ xerr' = IF r.ok THEN NoXerr
                            ELSE [kind |-> IF d.ok THEN "open" ELSE "mkdir", name |-> name]
    /\ nread' = nread + 1
    /\ UNCHANGED links
    /\ UNCHANGED <<runVars, filterVars, laterVars>>

\* The loop body for a tar.TypeSymlink entry.
ExtractSymlink ==
    /\ xerr = NoXerr
    /\ nread < MaxEntries
    /\ \E name \in EntryNames, l \in LinkNames :
          /\ isPathWithinDir(Target(name), Dest)
          /\ LET target == Target(name)
                 d == MkdirAll(fs, made, DirOf(target))
                 linkTarget == Join(DirOf(target), l.to)
                 valid == isPathWithinDir(linkTarget, Dest)
                 r == Symlink(d.fs, d.made, l.abs, l.to, target)
             IN  IF ~d.ok
                 THEN /\ fs' = d.fs
                      /\ made' = d.made
                      /\ xerr' = [kind |-> "mkdir", name |-> name]
                      /\ UNCHANGED links
                 ELSE IF ~valid
                 THEN /\ fs' = d.fs
                      /\ made' = d.made
                      /\ xerr' = [kind |-> "invalid symlink target", name |-> name]
                      /\ UNCHANGED links
                 ELSE /\ fs' = r.fs
                      /\ made' = r.made
                      /\ links' = IF r.ok THEN links \cup {r.at} ELSE links
                      /\ xerr' = IF r.ok THEN NoXerr ELSE [kind |-> "symlink", name |-> name]
    /\ nread' = nread + 1
    /\ UNCHANGED <<runVars, filterVars, laterVars>>

\* tr.Next returns io.EOF: extractTarGz returns nil.
ExtractEOF ==
    /\ xerr = NoXerr
    /\ xerr' = [kind |-> "nil", name |-> <<>>]
    /\ UNCHANGED <<fs, made, links, nread>>
    /\ UNCHANGED <<runVars, filterVars, laterVars>>

\* ----------------------------------------------- constraint normalisation
\* The symbols of the constraint strings normalisation is tried on.
ConstraintSymbols == {Pipe, Sp, Cmp("^", <<8, 2, 0>>), Cmp(">=", <<9, 0, 0>>)}

NormIdle == norm = [c |-> <<>>, n |-> 2, once |-> <<>>, out |-> <<>>]

NormInit ==
    \E c \in SeqsUpTo(ConstraintSymbols, MaxConstraintLen) :
        norm = [c |-> c, n |-> 0, once |-> c, out |-> c]

\* NormalizeConstraint is applied to the result of the previous application.
NormApply ==
    /\ norm.n < 2
    /\ LET r == NormalizeConstraint(norm.out)
       IN  norm' = [c |-> norm.c, n |-> norm.n + 1,
                    once |-> IF norm.n = 0 THEN r ELSE norm.once, out |-> r]
    /\ UNCHANGED <<runVars, filterVars, tarVars, hashes, envrun, indexVars, cacheVars, thirdVars>>

\* ------------------------------------------------------- the deps cache key
\* The characters of package names in ascending byte order; "LF" stands for
\* the newline character strings.Join puts between the names.
Bytes == <<"LF", "A", "B", "a", "b">>

ByteOf(c) == CHOOSE i \in 1..Len(Bytes) : Bytes[i] = c

\* s < t as Go compares strings: byte by byte, a proper prefix first.
RECURSIVE StringLess(_, _)
StringLess(s, t) ==
    IF t = <<>> THEN FALSE
    ELSE IF s = <<>> THEN TRUE
    ELSE IF Head(s) # Head(t) THEN ByteOf(Head(s)) < ByteOf(Head(t))
    ELSE StringLess(Tail(s), Tail(t))

\* sort.Strings.
RECURSIVE SortStrings(_)
SortStrings(list) ==
    IF list = <<>> THEN <<>>
    ELSE LET rest == SortStrings(Tail(list))
             x == Head(list)
             k == Cardinality({i \in 1..Len(rest) : StringLess(rest[i], x)})
         IN  SubSeq(rest, 1, k) \o <<x>> \o SubSeq(rest, k + 1, Len(rest))

\* strings.Join(list, "\n").
RECURSIVE JoinLF(_)
JoinLF(list) ==
    IF list = <<>> THEN <<>>
    ELSE IF Len(list) = 1 THEN Head(list)
    ELSE Head(list) \o <<"LF">> \o JoinLF(Tail(list))

\* sha256 followed by hex.EncodeToString: a digest that is a function of the
\* bytes written and of nothing else.
Sha256Hex(bytes) == <<"sha256">> \o bytes

\* DepsHash without the sort.
DepsHashUnsorted(packages) ==
    Sha256Hex(JoinLF([i \in 1..Len(packages) |-> ToLower(packages[i])]))

\* cache.DepsHash.
DepsHash(packages) ==
    LET normalized == [i \in 1..Len(packages) |-> ToLower(packages[i])]
    IN  Sha256Hex(JoinLF(SortStrings(normalized)))

\* Package requirements in the letter cases a script may spell them.
PackageSamples == {<<"a">>, <<"A">>, <<"b">>, <<"a", "b">>, <<"a", "B">>}

HashIdle == hashes = [p1 |-> <<>>, p2 |-> <<>>, h1 |-> <<>>, h2 |-> <<>>, done |-> TRUE]

HashInit ==
    \E p1 \in SeqsUpTo(PackageSamples, MaxPkgs), p2 \in SeqsUpTo(PackageSamples, MaxPkgs) :
        hashes = [p1 |-> p1, p2 |-> p2, h1 |-> <<>>, h2 |-> <<>>, done |-> FALSE]

\* Two runs compute the cache key of their package lists.
HashBoth ==
    /\ ~hashes.done
    /\ hashes' = [hashes EXCEPT !.h1 = DepsHash(hashes.p1), !.h2 = DepsHash(hashes.p2),
                                !.done = TRUE]
    /\ UNCHANGED <<runVars, filterVars, tarVars, norm, envrun, indexVars, cacheVars, thirdVars>>

\* ------------------------------------------- environment of the command
\* An environment entry NAME=value is the sequence of its pieces: the pieces
\* of the name (a prefix such as "LC_" is one piece), "=", and the value.
\* strings.Index(entry, "="): the position of the first "=", 0 for none.
IndexEq(entry) ==
    IF \E i \in 1..Len(entry) : entry[i] = "="
    THEN CHOOSE i \in 1..Len(entry) : entry[i] = "=" /\ \A j \in 1..(i - 1) : entry[j] # "="
    ELSE 0

SafeEnvPrefixes == <<<<"LC_">>, <<"XDG_">>>>

SafeEnvVars ==
    {<<"PATH">>, <<"HOME">>, <<"USER">>, <<"SHELL">>, <<"LANG">>, <<"TERM">>, <<"TZ">>,
     <<"TMPDIR">>, <<"TEMP">>, <<"TMP">>, <<"LOGNAME">>, <<"UID">>, <<"LANGUAGE">>,
     <<"LC_", "ALL">>, <<"LC_", "COLLATE">>, <<"LC_", "CTYPE">>, <<"LC_", "MESSAGES">>,
     <<"LC_", "MONETARY">>, <<"LC_", "NUMERIC">>, <<"LC_", "TIME">>, <<"COLORTERM">>,
     <<"COLUMNS">>, <<"LINES">>, <<"EDITOR">>, <<"VISUAL">>, <<"PAGER">>}

\* FilterEnv letting every entry of the parent through.
FilterEnvAll(environ, allow) == environ

\* util.FilterEnv over os.Environ() = environ.
FilterEnv(environ, allow) ==
    LET NameOf(v) == IF IndexEq(v) = 0 THEN v ELSE SubSeq(v, 1, IndexEq(v) - 1)
        explicitAllow == {NameOf(allow[i]) : i \in 1..Len(allow)}
        Keep(e) ==
            /\ IndexEq(e) # 0
            /\ LET name == SubSeq(e, 1, IndexEq(e) - 1)
               IN  \/ name \in explicitAllow
                   \/ name \in SafeEnvVars
                   \/ \E i \in 1..Len(SafeEnvPrefixes) : HasPrefix(name, SafeEnvPrefixes[i])
        Found(filtered, v) ==
            \E i \in 1..Len(filtered) : HasPrefix(filtered[i], NameOf(v) \o <<"=">>)
        RECURSIVE AddExplicit(_, _)
        AddExplicit(filtered, rest) ==
            IF rest = <<>> THEN filtered
            ELSE IF IndexEq(Head(rest)) # 0 /\ ~Found(filtered, Head(rest))
                 THEN AddExplicit(Append(filtered, Head(rest)), Tail(rest))
                 ELSE AddExplicit(filtered, Tail(rest))
    IN  AddExplicit(SelectSeq(environ, Keep), allow)

\* sandbox.ProxyEnvVars: the bridge port on the loopback address.
ProxyEnvVars ==
    <<<<"HTTP_PROXY", "=", "bridge">>, <<"HTTPS_PROXY", "=", "bridge">>,
      <<"http_proxy", "=", "bridge">>, <<"https_proxy", "=", "bridge">>,
      <<"ALL_PROXY", "=", "bridge">>>>

\* Manager.EnvVars and Proxy.EnvVarsWithSOCKS5: nothing without a manager.
ManagerEnvVars(mgr) ==
    IF ~mgr.created THEN <<>>
    ELSE <<<<"HTTP_PROXY", "=", "proxy">>, <<"HTTPS_PROXY", "=", "proxy">>,
           <<"http_proxy", "=", "proxy">>, <<"https_proxy", "=", "proxy">>>>
         \o (IF mgr.socks THEN <<<<"ALL_PROXY", "=", "socks">>, <<"all_proxy", "=", "socks">>>>
             ELSE <<>>)

\* The environment part of sandbox.SetupCommand.
SetupCommand(environ, cfg) == FilterEnv(environ, cfg.AllowedEnvVars) \o cfg.Env

\* cmd.Env as the Execute of each backend leaves it when cmd.Run is called.
CommandEnv(b, environ, cfg, socat) ==
    CASE b = "none" -> environ
      [] b \in {"bubblewrap", "linux-network"} ->
            SetupCommand(environ, cfg)
            \o (IF cfg.Network /\ cfg.ProxySocketPath /\ socat THEN ProxyEnvVars ELSE <<>>)
      [] OTHER -> SetupCommand(environ, cfg)

\* Entries of the parent environment: safelisted, secret, prefixed, lowercase
\* prefix, a proxy variable of the parent's own, and one without "=".
EnvironSamples ==
    <<<<"PATH", "=", "bin">>, <<"SECRET", "=", "s">>, <<"LC_", "FOO", "=", "x">>,
      <<"XDG_", "X", "=", "y">>, <<"lc_", "x", "=", "z">>, <<"HTTP_PROXY", "=", "corp">>,
      <<"BROKEN">>>>

\* Values of --allow-env after splitCSV.
AllowEnvSamples ==
    {<<>>, <<<<"SECRET">>>>, <<<<"SECRET", "=", "t">>>>, <<<<"NEW", "=", "n">>, <<"PATH">>>>}

\* The proxy managers ScriptRunner.Run may hand to the backend.
ProxySamples ==
    {NoProxy,
     [created |-> TRUE, running |-> TRUE, socks |-> FALSE, socket |-> FALSE],
     [created |-> TRUE, running |-> TRUE, socks |-> TRUE, socket |-> TRUE]}

EnvIdle ==
    envrun = [environ |-> <<>>, backend |-> "none", allow |-> <<>>, mgr |-> NoProxy,
              socat |-> FALSE, started |-> TRUE, env |-> <<>>]

EnvInit ==
    \E keep \in SUBSET (1..Len(EnvironSamples)), b \in Backends, allow \in AllowEnvSamples,
       mgr \in ProxySamples, socat \in BOOLEAN :
        /\ mgr.created => IsSandboxed(b)
        /\ envrun = [environ |-> SelectSeq(EnvironSamples,
                                           LAMBDA e : \E i \in keep : EnvironSamples[i] = e),
                     backend |-> b, allow |-> allow, mgr |-> mgr, socat |-> socat,
                     started |-> FALSE, env |-> <<>>]

\* sb.Execute up to cmd.Run: the environment the command is started with.
EnvExecute ==
    /\ ~envrun.started
    /\ LET cfg == [Network |-> envrun.mgr.created, ProxySocketPath |-> envrun.mgr.socket,
                   Env |-> ManagerEnvVars(envrun.mgr), AllowedEnvVars |-> envrun.allow]
       IN  envrun' = [envrun EXCEPT !.started = TRUE,
                         !.env = CommandEnv(envrun.backend, envrun.environ, cfg, envrun.socat)]
    /\ UNCHANGED <<runVars, filterVars, tarVars, norm, hashes, indexVars, cacheVars, thirdVars>>

\* ------------------------------------------------------- the index cache
\* Time is counted in hours. CacheTTL of index.go.
CacheTTL == 24

\* The processes (phpx runs) that may use the cache at the same time.
Procs == {1, 2}

\* The files of the index directory, in the order saveToCache writes them.
IndexFiles ==
    <<"common-versions.json", "bulk-versions.json", "common-extensions.json",
      "bulk-extensions.json", "composer-versions.json", "fetched_at">>

\* strconv-style decimal digits of a natural number, and their value.
Digits == <<"0", "1", "2", "3", "4", "5", "6", "7", "8", "9">>

RECURSIVE Decimal(_)
Decimal(n) == IF n < 10 THEN <<Digits[n + 1]>> ELSE Decimal(n \div 10) \o <<Digits[(n % 10) + 1]>>

RECURSIVE ParseDecimal(_, _)
ParseDecimal(chars, acc) ==
    IF chars = <<>> THEN acc
    ELSE ParseDecimal(Tail(chars),
                      10 * acc + (CHOOSE d \in 0..9 : Digits[d + 1] = Head(chars)))

\* Version.String leaving the patch number out.
VersionStringShort(v) == Decimal(v[1]) \o <<".">> \o Decimal(v[2])

\* semver.Version.String: MAJOR.MINOR.PATCH.
VersionString(v) == Decimal(v[1]) \o <<".">> \o Decimal(v[2]) \o <<".">> \o Decimal(v[3])

\* semver.NewVersion on a cached string: three dot-separated numbers, or nil.
NewVersion(str) ==
    LET dots == {i \in 1..Len(str) : str[i] = "."}
        numeric(s) == s # <<>> /\ \A i \in 1..Len(s) : \E d \in 1..10 : Digits[d] = s[i]
    IN  IF Cardinality(dots) # 2 THEN [ok |-> FALSE, v |-> <<0, 0, 0>>]
        ELSE LET d1 == CHOOSE i \in dots : \A j \in dots : i <= j
                 d2 == CHOOSE i \in dots : i # d1
                 a == SubSeq(str, 1, d1 - 1)
                 b == SubSeq(str, d1 + 1, d2 - 1)
                 c == SubSeq(str, d2 + 1, Len(str))
             IN  IF numeric(a) /\ numeric(b) /\ numeric(c)
                 THEN [ok |-> TRUE,
                       v |-> <<ParseDecimal(a, 0), ParseDecimal(b, 0), ParseDecimal(c, 0)>>]
                 ELSE [ok |-> FALSE, v |-> <<0, 0, 0>>]

\* A file holds a sequence of tokens: the brackets and commas of a JSON
\* array, a JSON string (t = "str", s its characters), a JSON object holding
\* a ComposerVersion (t = "obj", o its fields by JSON key), or an RFC3339
\* time (t = "time", n its hour).
NoObj == [path |-> "", version |-> "", minphp |-> 0]
Token(t, s, o, n) == [t |-> t, s |-> s, o |-> o, n |-> n]

\* json.Marshal of a slice whose elements are already tokens.
RECURSIVE MarshalItems(_)
MarshalItems(items) ==
    IF items = <<>> THEN <<>>
    ELSE IF Len(items) = 1 THEN items
    ELSE <<Head(items), Token(",", <<>>, NoObj, 0)>> \o MarshalItems(Tail(items))

Marshal(items) ==
    <<Token("[", <<>>, NoObj, 0)>> \o MarshalItems(items) \o <<Token("]", <<>>, NoObj, 0)>>

\* json.Unmarshal into a slice of the wanted element kind: the elements, or an error.
Unmarshal(text, kind) ==
    LET n == Len(text)
        inner == SubSeq(text, 2, n - 1)
        wellFormed ==
            /\ n >= 2
            /\ text[1].t = "[" /\ text[n].t = "]"
            /\ \A i \in 1..Len(inner) :
                  IF i % 2 = 1 THEN inner[i].t = kind ELSE inner[i].t = ","
            /\ Len(inner) % 2 = 1 \/ inner = <<>>
    IN  IF wellFormed
        THEN [ok |-> TRUE, items |-> SelectSeq(inner, LAMBDA tk : tk.t = kind)]
        ELSE [ok |-> FALSE, items |-> <<>>]

\* A file of the cache: absent, or the tokens written to it.
NoFile == [exists |-> FALSE, text |-> <<>>]
EmptyDir == [f \in Range(IndexFiles) |-> NoFile]

\* The index as Refresh and loadFromCache build it.
NoCachedIndex ==
    [CommonVersions |-> <<>>, BulkVersions |-> <<>>, CommonExtensions |-> <<>>,
     BulkExtensions |-> <<>>, ComposerVersions |-> <<>>, FetchedAt |-> 0]

\* The bytes saveToCache writes to the k-th file.
SaveText(i, k) ==
    LET strs(list) == [j \in 1..Len(list) |-> Token("str", list[j], NoObj, 0)]
        versions(list) == [j \in 1..Len(list) |-> Token("str", VersionString(list[j]), NoObj, 0)]
        objs(list) == [j \in 1..Len(list) |-> Token("obj", <<>>, list[j], 0)]
    IN  CASE k = 1 -> Marshal(versions(i.CommonVersions))
          [] k = 2 -> Marshal(versions(i.BulkVersions))
          [] k = 3 -> Marshal(strs(i.CommonExtensions))
          [] k = 4 -> Marshal(strs(i.BulkExtensions))
          [] k = 5 -> Marshal(objs(i.ComposerVersions))
          [] OTHER -> <<Token("time", <<>>, NoObj, i.FetchedAt)>>

\* time.Parse(time.RFC3339, ...) of the content of fetched_at.
ParseTime(file) ==
    IF file.exists /\ Len(file.text) = 1 /\ file.text[1].t = "time"
    THEN [ok |-> TRUE, at |-> file.text[1].n]
    ELSE [ok |-> FALSE, at |-> 0]

\* loadFromCache: every file must be readable and hold a JSON array; a
\* cached string that is no version is skipped; an unreadable time is zero.
loadFromCache(dir) ==
    LET read(k, kind) == IF dir[IndexFiles[k]].exists
                         THEN Unmarshal(dir[IndexFiles[k]].text, kind)
                         ELSE [ok |-> FALSE, items |-> <<>>]
        parsed(items) == SelectSeq([j \in 1..Len(items) |-> NewVersion(items[j].s)],
                                   LAMBDA r : r.ok)
        versions(items) == [j \in 1..Len(parsed(items)) |-> parsed(items)[j].v]
    IN  IF \E k \in 1..5 : ~read(k, IF k = 5 THEN "obj" ELSE "str").ok
           \/ ~dir["fetched_at"].exists
        THEN [ok |-> FALSE, idx |-> NoCachedIndex]
        ELSE [ok |-> TRUE,
              idx |-> [CommonVersions |-> versions(read(1, "str").items),
                       BulkVersions |-> versions(read(2, "str").items),
                       CommonExtensions |-> [j \in 1..Len(read(3, "str").items) |->
                                               read(3, "str").items[j].s],
                       BulkExtensions |-> [j \in 1..Len(read(4, "str").items) |->
                                             read(4, "str").items[j].s],
                       ComposerVersions |-> [j \in 1..Len(read(5, "obj").items) |->
                                               read(5, "obj").items[j].o],
                       FetchedAt |-> ParseTime(dir["fetched_at"]).at]]

\* What the five endpoints serve: the first element at hour 0, the second
\* from then on.
Remote ==
    <<[commonList |-> <<<<8, 3, 17>>>>, bulkList |-> <<<<8, 2, 27>>, <<8, 3, 17>>>>,
       commonExt |-> <<<<"curl">>>>, bulkExt |-> <<<<"curl">>, <<"intl">>>>,
       composer |-> <<[path |-> "/download/2.8.1/composer.phar", version |-> "2.8.1",
                       minphp |-> 70205]>>],
      [commonList |-> <<<<8, 3, 17>>, <<8, 4, 17>>, <<8, 3, 17>>>>,
       bulkList |-> <<<<8, 4, 17>>, <<8, 3, 17>>, <<8, 2, 27>>>>,
       commonExt |-> <<<<"curl">>, <<"intl">>>>, bulkExt |-> <<<<"intl">>>>,
       composer |-> <<[path |-> "/download/2.9.0/composer.phar", version |-> "2.9.0",
                       minphp |-> 70205],
                      [path |-> "/download/2.2.25/composer.phar", version |-> "2.2.25",
                       minphp |-> 50300]>>]>>

RemoteAt(now) == IF now = 0 THEN Remote[1] ELSE Remote[2]

\* The Index of Refresh after its five fetches succeeded at time now.
FetchedIndex(r, now) ==
    [CommonVersions |-> fetchVersions(r.commonList), BulkVersions |-> fetchVersions(r.bulkList),
     CommonExtensions |-> r.commonExt, BulkExtensions |-> r.bulkExt,
     ComposerVersions |-> r.composer, FetchedAt |-> now]

\* The freshness test of Load with <= in place of <.
FreshInclusive(file, now) ==
    ParseTime(file).ok /\ now - ParseTime(file).at <= CacheTTL

\* The freshness test of Load: fetched_at is readable, parses and
\* time.Since(t) < CacheTTL.
Fresh(file, now) ==
    ParseTime(file).ok /\ now - ParseTime(file).at < CacheTTL

IdleProc ==
    [pc |-> "idle", op |-> "", path |-> "", idx |-> NoCachedIndex, k |-> 0, net |-> 0,
     ok |-> FALSE, seen |-> [exists |-> FALSE, ok |-> FALSE, age |-> 0]]

IndexIdle ==
    /\ clock = 0
    /\ indexDir = EmptyDir
    /\ procs = [p \in Procs |-> [IdleProc EXCEPT !.pc = "off"]]
    /\ committed = {}
    /\ started = 0

IndexInit ==
    /\ clock = 0
    /\ indexDir = EmptyDir
    /\ procs = [p \in Procs |-> IdleProc]
    /\ committed = {}
    /\ started = 0

\* Half a day passes.
IndexTick ==
    /\ clock + 12 <= MaxClock
    /\ clock' = clock + 12
    /\ UNCHANGED <<indexDir, procs, committed, started>>
    /\ UNCHANGED <<runVars, filterVars, tarVars, norm, hashes, envrun, cacheVars, thirdVars>>

\* What Load finds in fetched_at: whether os.ReadFile and time.Parse succeed
\* and the value of time.Since.
Seen(file, now) ==
    [exists |-> file.exists, ok |-> ParseTime(file).ok,
     age |-> IF ParseTime(file).ok THEN now - ParseTime(file).at ELSE 0]

\* index.Load up to its branch: the cache when fetched_at is fresh, else Refresh.
LoadStart(p) ==
    /\ procs[p].pc = "idle"
    /\ started < MaxStarts
    /\ started' = started + 1
    /\ LET fresh == Fresh(indexDir["fetched_at"], clock)
       IN  procs' = [procs EXCEPT ![p] =
                        [IdleProc EXCEPT !.pc = IF fresh THEN "cached" ELSE "refresh",
                                         !.op = "load",
                                         !.path = IF fresh THEN "cache" ELSE "net",
                                         !.seen = Seen(indexDir["fetched_at"], clock)]]
    /\ UNCHANGED <<clock, indexDir, committed>>
    /\ UNCHANGED <<runVars, filterVars, tarVars, norm, hashes, envrun, cacheVars, thirdVars>>

\* Load returns loadFromCache(indexDir).
LoadCached(p) ==
    /\ procs[p].pc = "cached"
    /\ LET r == loadFromCache(indexDir)
       IN  procs' = [procs EXCEPT ![p].pc = "idle", ![p].ok = r.ok, ![p].idx = r.idx]
    /\ UNCHANGED <<clock, indexDir, committed, started>>
    /\ UNCHANGED <<runVars, filterVars, tarVars, norm, hashes, envrun, cacheVars, thirdVars>>

\* index.Refresh is called directly.
RefreshStart(p) ==
    /\ procs[p].pc = "idle"
    /\ started < MaxStarts
    /\ started' = started + 1
    /\ procs' = [procs EXCEPT ![p] = [IdleProc EXCEPT !.pc = "refresh", !.op = "refresh",
                                                     !.path = "net"]]
    /\ UNCHANGED <<clock, indexDir, committed>>
    /\ UNCHANGED <<runVars, filterVars, tarVars, norm, hashes, envrun, cacheVars, thirdVars>>

\* The five fetches of Refresh: the j-th fails and Refresh returns its error,
\* or all succeed and the index is ready to be saved.
RefreshFetch(p) ==
    /\ procs[p].pc = "refresh"
    /\ \/ \E j \in 1..5 :
            procs' = [procs EXCEPT ![p].pc = "idle", ![p].net = j, ![p].ok = FALSE]
       \/ procs' = [procs EXCEPT ![p].pc = "save", ![p].net = 5, ![p].k = 1,
                                 ![p].idx = FetchedIndex(RemoteAt(clock), clock)]
    /\ UNCHANGED <<clock, indexDir, committed, started>>
    /\ UNCHANGED <<runVars, filterVars, tarVars, norm, hashes, envrun, cacheVars, thirdVars>>

\* One os.WriteFile of saveToCache. It succeeds, or it fails and Refresh
\* returns "save cache": the file is then as it was (it could not be
\* opened) or truncated with its data cut short, which no reader can parse;
\* the empty file stands for every such file.
SaveWrite(p) ==
    /\ procs[p].pc = "save"
    /\ LET k == procs[p].k
           name == IndexFiles[k]
           data == SaveText(procs[p].idx, k)
       IN  \/ /\ indexDir' = [indexDir EXCEPT ![name] = [exists |-> TRUE, text |-> data]]
              /\ IF k = 6
                 THEN /\ procs' = [procs EXCEPT ![p].pc = "idle", ![p].ok = TRUE]
                      /\ committed' = committed \cup {procs[p].idx}
                 ELSE /\ procs' = [procs EXCEPT ![p].k = k + 1]
                      /\ UNCHANGED committed
           \/ /\ \/ UNCHANGED indexDir
                 \/ indexDir' = [indexDir EXCEPT ![name] = [exists |-> TRUE, text |-> <<>>]]
              /\ procs' = [procs EXCEPT ![p].pc = "idle", ![p].ok = FALSE]
              /\ UNCHANGED committed
    /\ UNCHANGED <<clock, started>>
    /\ UNCHANGED <<runVars, filterVars, tarVars, norm, hashes, envrun, cacheVars, thirdVars>>

\* Indexes handed to saveToCache when saving and reloading is tried alone.
IndexSamples ==
    [CommonVersions : SeqsUpTo(Versions, MaxListing),
     BulkVersions : {<<>>, <<<<8, 4, 17>>, <<8, 2, 27>>>>},
     CommonExtensions : SeqsUpTo({<<"curl">>, <<"intl">>}, MaxExts),
     BulkExtensions : {<<>>, <<<<"intl">>, <<"curl">>>>},
     ComposerVersions : {<<>>, Remote[1].composer, Remote[2].composer},
     FetchedAt : {0}]

\* Refresh has fetched an index and is about to save it into an empty directory.
SaveInit ==
    /\ clock = 0
    /\ indexDir = EmptyDir
    /\ \E i \in IndexSamples :
          procs = [p \in Procs |-> IF p = 1
                                   THEN [IdleProc EXCEPT !.pc = "save", !.op = "refresh",
                                                         !.path = "net", !.k = 1, !.net = 5,
                                                         !.idx = i]
                                   ELSE [IdleProc EXCEPT !.pc = "off"]]
    /\ committed = {}
    /\ started = 0

\* ------------------------------------------- cache leaves across runs
\* A leaf is the file a reader stats: php/<version>-<tier>/bin/php,
\* composer/composer-<version>.phar, deps/<hash>/vendor/autoload.php with its
\* directory. It is "absent", "writing" (a run has created it and is filling
\* it), "broken" (a run that failed or was killed left it part-filled) or
\* "complete".
LeafStates == {"absent", "writing", "broken", "complete"}

\* The interpreter versions and composer versions the endpoints offer.
LeafVersions == {FetchedIndex(Remote[g], 0).CommonVersions[1] : g \in 1..Len(Remote)}
LeafComposers ==
    UNION {{Remote[g].composer[j].version : j \in 1..Len(Remote[g].composer)} :
              g \in 1..Len(Remote)}

\* cache.Exists of a leaf's marker, requiring the leaf to be complete.
ExistsComplete(leaf, s) == s = "complete"

\* cache.Exists of a leaf's marker: os.Stat succeeds. The interpreter and the
\* phar are themselves the files being written; autoload.php is the last file
\* an install writes.
Exists(leaf, s) == IF leaf = "deps" THEN s = "complete" ELSE s # "absent"

\* Index.SelectComposer: the first composer version whose MinPHP the
\* interpreter version reaches.
RECURSIVE SelectComposer(_, _)
SelectComposer(cvs, v) ==
    IF cvs = <<>> THEN [ok |-> FALSE, version |-> ""]
    ELSE IF Head(cvs).minphp <= v[1] * 10000 + v[2] * 100 + v[3]
         THEN [ok |-> TRUE, version |-> Head(cvs).version]
         ELSE SelectComposer(Tail(cvs), v)

Unseen == [php |-> "unseen", composer |-> "unseen", deps |-> "unseen"]
NoHit == [php |-> FALSE, composer |-> FALSE, deps |-> FALSE]

IdleRun ==
    [pc |-> "idle", pkgs |-> FALSE, fresh |-> FALSE, ver |-> <<0, 0, 0>>, cv |-> "",
     net |-> 0, saw |-> Unseen, cached |-> NoHit, ran |-> "unseen"]

NoLeaves ==
    [php |-> [v \in LeafVersions |-> "absent"],
     composer |-> [c \in LeafComposers |-> "absent"],
     deps |-> "absent"]

CacheIdle ==
    /\ leaves = NoLeaves
    /\ cruns = [p \in Procs |-> [IdleRun EXCEPT !.pc = "off"]]

CacheInit ==
    /\ leaves = NoLeaves
    /\ cruns = [p \in Procs |-> IdleRun]

\* The run ends with an error.
RunFails(p, net) ==
    cruns' = [cruns EXCEPT ![p].pc = "failed", ![p].net = net]

\* runScript up to index.Load, which runs to its end here: the cache when
\* fetched_at is fresh, else Refresh with its five fetches and saveToCache.
RunLoad(p) ==
    /\ cruns[p].pc \in {"idle", "done", "failed"}
    /\ started < MaxStarts
    /\ started' = started + 1
    /\ \E pkgs \in BOOLEAN :
         LET run == [IdleRun EXCEPT !.pkgs = pkgs]
             loaded(i, fresh, net) ==
                 LET l == LatestVersion(i.CommonVersions)
                     c == SelectComposer(i.ComposerVersions, l.version)
                 IN  cruns' = [cruns EXCEPT ![p] =
                                  [run EXCEPT !.pc = "loaded", !.fresh = fresh, !.net = net,
                                              !.ver = l.version,
                                              !.cv = IF c.ok THEN c.version ELSE ""]]
         IN  IF Fresh(indexDir["fetched_at"], clock)
             THEN /\ LET r == loadFromCache(indexDir)
                     IN  IF r.ok /\ LatestVersion(r.idx.CommonVersions).ok
                         THEN loaded(r.idx, TRUE, 0)
                         ELSE cruns' = [cruns EXCEPT ![p] =
                                           [run EXCEPT !.pc = "failed", !.fresh = TRUE]]
                  /\ UNCHANGED <<indexDir, committed>>
             ELSE \/ /\ \E j \in {1, 5} :
                           cruns' = [cruns EXCEPT ![p] = [run EXCEPT !.pc = "failed", !.net = j]]
                     /\ UNCHANGED <<indexDir, committed>>
                  \/ LET i == FetchedIndex(RemoteAt(clock), clock)
                     IN  /\ indexDir' = [f \in Range(IndexFiles) |->
                                            LET k == CHOOSE n \in 1..6 : IndexFiles[n] = f
                                            IN  [exists |-> TRUE, text |-> SaveText(i, k)]]
                         /\ committed' = committed \cup {i}
                         /\ loaded(i, FALSE, 5)
    /\ UNCHANGED <<clock, procs, leaves>>
    /\ UNCHANGED <<runVars, filterVars, tarVars, norm, hashes, envrun, thirdVars>>

\* php.Resolve: Cached is cache.Exists of the interpreter path.
RunResolve(p) ==
    /\ cruns[p].pc = "loaded"
    /\ LET s == leaves.php[cruns[p].ver]
       IN  cruns' = [cruns EXCEPT ![p].pc = "resolved", ![p].saw.php = s,
                                  ![p].cached.php = Exists("php", s)]
    /\ UNCHANGED <<leaves, indexVars>>
    /\ UNCHANGED <<runVars, filterVars, tarVars, norm, hashes, envrun, thirdVars>>

\* php.EnsurePHP: nothing when Cached, else Download up to the os.OpenFile of
\* extractTarGz that creates or truncates bin/php; http.Get may fail before.
RunEnsurePHP(p) ==
    /\ cruns[p].pc = "resolved"
    /\ IF cruns[p].cached.php
       THEN /\ cruns' = [cruns EXCEPT ![p].pc = "php"]
            /\ UNCHANGED leaves
       ELSE \/ /\ RunFails(p, cruns[p].net + 1)
               /\ UNCHANGED leaves
            \/ /\ cruns' = [cruns EXCEPT ![p].pc = "extract", ![p].net = cruns[p].net + 1]
               /\ leaves' = [leaves EXCEPT !.php[cruns[p].ver] = "writing"]
    /\ UNCHANGED indexVars
    /\ UNCHANGED <<runVars, filterVars, tarVars, norm, hashes, envrun, thirdVars>>

\* The io.Copy of extractTarGz ends: the file is complete, or the stream
\* broke or the run was killed and Download returns with the file as it is.
RunExtract(p) ==
    /\ cruns[p].pc = "extract"
    /\ \/ /\ leaves' = [leaves EXCEPT !.php[cruns[p].ver] = "complete"]
          /\ cruns' = [cruns EXCEPT ![p].pc = "php"]
       \/ /\ leaves' = [leaves EXCEPT !.php[cruns[p].ver] = "broken"]
          /\ RunFails(p, cruns[p].net)
    /\ UNCHANGED indexVars
    /\ UNCHANGED <<runVars, filterVars, tarVars, norm, hashes, envrun, thirdVars>>

\* runScript: the dependency block is entered when the script has packages
\* and vendor/autoload.php does not exist.
RunDeps(p) ==
    /\ cruns[p].pc = "php"
    /\ IF ~cruns[p].pkgs
       THEN cruns' = [cruns EXCEPT ![p].pc = "ready"]
       ELSE cruns' = [cruns EXCEPT ![p].saw.deps = leaves.deps,
                                   ![p].cached.deps = Exists("deps", leaves.deps),
                                   ![p].pc = IF Exists("deps", leaves.deps) THEN "ready"
                                             ELSE IF cruns[p].cv = "" THEN "failed"
                                             ELSE "composer"]
    /\ UNCHANGED <<leaves, indexVars>>
    /\ UNCHANGED <<runVars, filterVars, tarVars, norm, hashes, envrun, thirdVars>>

\* index.DownloadComposer up to os.Create: the phar that exists is returned,
\* else http.Get, which may fail, and the file is created.
DownloadComposer(p) ==
    /\ cruns[p].pc = "composer"
    /\ LET s == leaves.composer[cruns[p].cv]
       IN  IF Exists("composer", s)
           THEN /\ cruns' = [cruns EXCEPT ![p].pc = "install", ![p].saw.composer = s,
                                          ![p].cached.composer = TRUE]
                /\ UNCHANGED leaves
           ELSE \/ /\ cruns' = [cruns EXCEPT ![p].pc = "failed", ![p].saw.composer = s,
                                             ![p].net = cruns[p].net + 1]
                   /\ UNCHANGED leaves
                \/ /\ cruns' = [cruns EXCEPT ![p].pc = "copy", ![p].saw.composer = s,
                                             ![p].net = cruns[p].net + 1]
                   /\ leaves' = [leaves EXCEPT !.composer[cruns[p].cv] = "writing"]
    /\ UNCHANGED indexVars
    /\ UNCHANGED <<runVars, filterVars, tarVars, norm, hashes, envrun, thirdVars>>

\* The io.Copy of DownloadComposer ends: the phar is complete; or the copy
\* failed and os.Remove deleted it; or the run was killed with the phar as
\* it is.
ComposerCopy(p) ==
    /\ cruns[p].pc = "copy"
    /\ \/ /\ leaves' = [leaves EXCEPT !.composer[cruns[p].cv] = "complete"]
          /\ cruns' = [cruns EXCEPT ![p].pc = "install"]
       \/ /\ leaves' = [leaves EXCEPT !.composer[cruns[p].cv] = "absent"]
          /\ RunFails(p, cruns[p].net)
       \/ /\ leaves' = [leaves EXCEPT !.composer[cruns[p].cv] = "broken"]
          /\ RunFails(p, cruns[p].net)
    /\ UNCHANGED indexVars
    /\ UNCHANGED <<runVars, filterVars, tarVars, norm, hashes, envrun, thirdVars>>

\* composer.InstallDeps up to cmd.Run: the directory and composer.json are
\* written and composer starts, which needs a whole interpreter and phar.
InstallDepsStart(p) ==
    /\ cruns[p].pc = "install"
    /\ leaves' = [leaves EXCEPT !.deps = IF @ = "complete" THEN @ ELSE "writing"]
    /\ IF leaves.php[cruns[p].ver] = "complete" /\ leaves.composer[cruns[p].cv] = "complete"
       THEN cruns' = [cruns EXCEPT ![p].pc = "installing", ![p].net = cruns[p].net + 1]
       ELSE RunFails(p, cruns[p].net)
    /\ UNCHANGED indexVars
    /\ UNCHANGED <<runVars, filterVars, tarVars, norm, hashes, envrun, thirdVars>>

\* cmd.Run of InstallDeps ends: composer wrote vendor/autoload.php, or it
\* failed or was killed and InstallDeps returns with the directory as it is.
InstallDepsEnd(p) ==
    /\ cruns[p].pc = "installing"
    /\ \/ /\ leaves' = [leaves EXCEPT !.deps = "complete"]
          /\ cruns' = [cruns EXCEPT ![p].pc = "ready"]
       \/ /\ leaves' = [leaves EXCEPT !.deps = IF @ = "complete" THEN @ ELSE "broken"]
          /\ RunFails(p, cruns[p].net)
    /\ UNCHANGED indexVars
    /\ UNCHANGED <<runVars, filterVars, tarVars, norm, hashes, envrun, thirdVars>>

\* runner.Run executes the interpreter at res.Path.
RunExecute(p) ==
    /\ cruns[p].pc = "ready"
    /\ cruns' = [cruns EXCEPT ![p].pc = "done", ![p].ran = leaves.php[cruns[p].ver]]
    /\ UNCHANGED <<leaves, indexVars>>
    /\ UNCHANGED <<runVars, filterVars, tarVars, norm, hashes, envrun, thirdVars>>

\* ------------------------------------------------------ groups at rest
\* ------------------------------------------- proxy manager of one Run
\* The most calls of Manager.Stop in one behaviour.
MaxStops == 3

NoProxyServer == [server |-> FALSE, listening |-> FALSE, file |-> FALSE]

\* A Manager no proxy was started for.
NoManager ==
    [created |-> FALSE, http |-> NoProxyServer,
     socket |-> [present |-> FALSE, srv |-> NoProxyServer],
     socks |-> [present |-> FALSE, listening |-> FALSE, done |-> "open"]]

\* Proxy.Stop that leaves the socket file in place.
ProxyStopKeepFile(p) == IF ~p.server THEN p ELSE [p EXCEPT !.listening = FALSE]

\* Proxy.Stop: nothing without a server; else Shutdown closes the listener
\* and the socket file of a Unix proxy is removed.
ProxyStop(p) == IF ~p.server THEN p ELSE [p EXCEPT !.listening = FALSE, !.file = FALSE]

\* SOCKS5Proxy.Stop: close(s.done) panics when the channel is closed
\* already; else the listener is closed.
SOCKS5Stop(s) ==
    IF s.done = "closed" THEN [panic |-> TRUE, s |-> s]
    ELSE [panic |-> FALSE, s |-> [s EXCEPT !.done = "closed", !.listening = FALSE]]

\* Manager.Stop: the socket proxy, the SOCKS5 proxy and the HTTP proxy in
\* this order, each when it is not nil; a panic ends the call where it is.
ManagerStop(m) ==
    LET m1 == IF m.socket.present THEN [m EXCEPT !.socket.srv = ProxyStop(@)] ELSE m
        s == SOCKS5Stop(m1.socks)
    IN  IF m1.socks.present /\ s.panic THEN [panic |-> TRUE, m |-> m1]
        ELSE [panic |-> FALSE,
              m |-> [m1 EXCEPT !.socks = IF m1.socks.present THEN s.s ELSE @,
                               !.http = ProxyStop(@)]]

MgrIdle ==
    /\ manager = NoManager
    /\ mrun = [pc |-> "off", sandboxed |-> FALSE, network |-> FALSE, linux |-> FALSE,
               timeout |-> FALSE, httpFailed |-> FALSE, err |-> "", outcome |-> "",
               stops |-> 0, panicked |-> FALSE]

MgrInit ==
    /\ manager = NoManager
    /\ \E sandboxed, network, linux, timeout \in BOOLEAN :
          mrun = [pc |-> "start", sandboxed |-> sandboxed, network |-> network,
                  linux |-> linux, timeout |-> timeout, httpFailed |-> FALSE, err |-> "",
                  outcome |-> "", stops |-> 0, panicked |-> FALSE]

\* ScriptRunner.Run up to sb.Execute: proxy.NewManager when the backend is
\* sandboxed and the network is allowed. The HTTP proxy must start; the
\* SOCKS5 proxy and, on Linux, the Unix socket proxy may fail to.
MgrNewManager ==
    /\ mrun.pc = "start"
    /\ IF mrun.sandboxed /\ mrun.network
       THEN \/ /\ mrun' = [mrun EXCEPT !.pc = "returned", !.httpFailed = TRUE,
                                       !.err = "failed to start proxy"]
               /\ UNCHANGED manager
            \/ /\ \E socks5 \in BOOLEAN, unix \in BOOLEAN :
                     /\ unix => mrun.linux
                     /\ manager' =
                           [created |-> TRUE,
                            http |-> [server |-> TRUE, listening |-> TRUE, file |-> FALSE],
                            socket |-> [present |-> unix,
                                        srv |-> IF unix
                                                THEN [server |-> TRUE, listening |-> TRUE,
                                                      file |-> TRUE]
                                                ELSE NoProxyServer],
                            socks |-> [present |-> socks5, listening |-> socks5,
                                       done |-> "open"]]
               /\ mrun' = [mrun EXCEPT !.pc = "ready"]
       ELSE mrun' = [mrun EXCEPT !.pc = "ready"] /\ UNCHANGED manager
    /\ UNCHANGED <<meta, inferred, inst, wrap, sess, hreq, sock>>
    /\ UNCHANGED <<runVars, filterVars, tarVars, secondVars>>

\* sb.Execute returns: the child exited with a code, could not be started,
\* or was killed when the timeout elapsed.
MgrExecute ==
    /\ mrun.pc = "ready"
    /\ \E o \in {"exit0", "exit1", "startfail", "timeout"} :
          /\ o = "timeout" => mrun.timeout
          /\ mrun' = [mrun EXCEPT !.pc = "executed", !.outcome = o,
                                  !.err = IF o = "startfail" THEN "execution failed" ELSE ""]
    /\ UNCHANGED manager
    /\ UNCHANGED <<meta, inferred, inst, wrap, sess, hreq, sock>>
    /\ UNCHANGED <<runVars, filterVars, tarVars, secondVars>>

\* Run returns: the deferred proxyMgr.Stop runs when a manager was made.
MgrReturn ==
    /\ mrun.pc = "executed"
    /\ IF manager.created
       THEN LET r == ManagerStop(manager)
            IN  /\ manager' = r.m
                /\ mrun' = [mrun EXCEPT !.pc = "returned", !.stops = 1, !.panicked = r.panic]
       ELSE mrun' = [mrun EXCEPT !.pc = "returned"] /\ UNCHANGED manager
    /\ UNCHANGED <<meta, inferred, inst, wrap, sess, hreq, sock>>
    /\ UNCHANGED <<runVars, filterVars, tarVars, secondVars>>

\* Manager.Stop is called on a manager that was stopped before.
MgrStopAgain ==
    /\ mrun.pc = "returned"
    /\ manager.created
    /\ ~mrun.panicked
    /\ mrun.stops < MaxStops
    /\ LET r == ManagerStop(manager)
       IN  /\ manager' = r.m
           /\ mrun' = [mrun EXCEPT !.stops = @ + 1, !.panicked = r.panic]
    /\ UNCHANGED <<meta, inferred, inst, wrap, sess, hreq, sock>>
    /\ UNCHANGED <<runVars, filterVars, tarVars, secondVars>>

\* ------------------------------------------------- the metadata block
\* A script is a sequence of lines and a line a sequence of pieces: " ",
\* "//", "phpx", a TOML assignment, code, or "BIG", which stands for more
\* characters than the buffer of a bufio.Scanner holds.
\* The most lines of a script.
MaxLines == 3

Marker == <<"//", " ", "phpx">>

LineSamples ==
    {Marker, <<" ", "//", " ", "phpx", " ">>, <<"//", "phpx">>,
     <<"//", " ", "php=ok">>, <<"//", "php=ok">>, <<"//", " ", " ", "pkgs=ok">>,
     <<"//", " ", "php=bad">>, <<"//">>, <<"code">>, <<>>, <<"code", "BIG">>}

EmptyMetadata == [err |-> FALSE, PHP |-> "", Packages |-> <<>>]

\* bufio.Scanner over the content: the lines Scan yields. Scan stops for
\* good at a line longer than its buffer; Parse never looks at scanner.Err.
RECURSIVE ScanLines(_)
ScanLines(content) ==
    IF content = <<>> \/ (\E i \in 1..Len(Head(content)) : Head(content)[i] = "BIG")
    THEN <<>>
    ELSE <<Head(content)>> \o ScanLines(Tail(content))

\* strings.TrimPrefix.
TrimPrefix(s, p) == IF HasPrefix(s, p) THEN SubSeq(s, Len(p) + 1, Len(s)) ELSE s

\* The second loop of Parse: the lines up to the first one that, trimmed,
\* does not start with //, each without the // and one space after it.
RECURSIVE CollectToml(_)
CollectToml(lines) ==
    IF lines = <<>> \/ ~HasPrefix(TrimSpace(Head(lines)), <<"//">>) THEN <<>>
    ELSE <<TrimPrefix(TrimPrefix(TrimSpace(Head(lines)), <<"//">>), <<" ">>)>>
             \o CollectToml(Tail(lines))

\* toml.Decode into Metadata: blank lines count for nothing, a line that is
\* no assignment or a key assigned twice is an error.
Decode(tomlLines) ==
    LET body(i) == TrimSpace(tomlLines[i])
        n == Len(tomlLines)
        bad == \E i \in 1..n : body(i) \notin {<<>>, <<"php=ok">>, <<"pkgs=ok">>}
        twice == \E i, j \in 1..n : i < j /\ body(i) = body(j) /\ body(i) # <<>>
        has(b) == \E i \in 1..n : body(i) = <<b>>
    IN  IF bad \/ twice THEN [EmptyMetadata EXCEPT !.err = TRUE]
        ELSE [err |-> FALSE, PHP |-> IF has("php=ok") THEN "^8.3" ELSE "",
              Packages |-> IF has("pkgs=ok") THEN <<"vendor/pkg:^1.0">> ELSE <<>>]

\* The first loop of Parse: the lines after the first one that is the marker
\* when trimmed; found tells whether there is one.
RECURSIVE AfterMarker(_)
AfterMarker(lines) ==
    IF lines = <<>> THEN [found |-> FALSE, rest |-> <<>>]
    ELSE IF TrimSpace(Head(lines)) = Marker THEN [found |-> TRUE, rest |-> Tail(lines)]
    ELSE AfterMarker(Tail(lines))

\* metadata.Parse.
Parse(content) ==
    LET m == AfterMarker(ScanLines(content))
        tomlLines == CollectToml(m.rest)
    IN  IF ~m.found \/ tomlLines = <<>> THEN EmptyMetadata ELSE Decode(tomlLines)

ParsedIdle == meta = [content |-> <<>>, done |-> FALSE, out |-> EmptyMetadata]

MetaInit ==
    \E c \in SeqsUpTo(LineSamples, MaxLines) :
       meta = [content |-> c, done |-> FALSE, out |-> EmptyMetadata]

MetaParse ==
    /\ ~meta.done
    /\ meta' = [meta EXCEPT !.done = TRUE, !.out = Parse(meta.content)]
    /\ UNCHANGED <<manager, mrun, inferred, inst, wrap, sess, hreq, sock>>
    /\ UNCHANGED <<runVars, filterVars, tarVars, secondVars>>

\* ------------------------------------------------- binary inference
\* Package names and bin paths are sequences of pieces: names, "/" and the
\* suffix ".phar".
\* The most bin entries of a package.
MaxBins == 3

\* filepath.Base of a path without trailing slashes: what follows the last
\* "/"; "." for the empty path.
Base(path) ==
    IF path = <<>> THEN <<".">> ELSE SubSeq(path, LastIndex(path, "/") + 1, Len(path))

\* strings.TrimSuffix.
TrimSuffix(s, suffix) ==
    IF HasSuffix(s, suffix) THEN SubSeq(s, 1, Len(s) - Len(suffix)) ELSE s

\* packageShortName: the second part of strings.Split(pkg, "/") when there
\* are two parts or more, else pkg.
packageShortName(pkg) ==
    LET slashes == {i \in 1..Len(pkg) : pkg[i] = "/"}
    IN  IF slashes = {} THEN pkg
        ELSE LET first == CHOOSE i \in slashes : \A j \in slashes : i <= j
                 later == {i \in slashes : i > first}
                 stop == IF later = {} THEN Len(pkg) + 1
                         ELSE CHOOSE i \in later : \A j \in later : i <= j
             IN  SubSeq(pkg, first + 1, stop - 1)

\* The loop of InferBinary: the base name of the first entry whose base name
\* without ".phar" is the short name.
RECURSIVE MatchShortName(_, _)
MatchShortName(bins, shortName) ==
    IF bins = <<>> THEN [found |-> FALSE, bin |-> <<>>]
    ELSE IF TrimSuffix(Base(Head(bins)), <<".phar">>) = shortName
         THEN [found |-> TRUE, bin |-> Base(Head(bins))]
         ELSE MatchShortName(Tail(bins), shortName)

\* InferBinary that never looks for the short name.
InferBinaryFirst(pkg, bins, fromFlag) ==
    IF fromFlag # <<>> THEN [err |-> FALSE, bin |-> fromFlag]
    ELSE IF bins = <<>> THEN [err |-> TRUE, bin |-> <<>>]
    ELSE [err |-> FALSE, bin |-> Base(bins[1])]

\* composer.InferBinary; err stands for "binary not found in package".
InferBinary(pkg, bins, fromFlag) ==
    IF fromFlag # <<>> THEN [err |-> FALSE, bin |-> fromFlag]
    ELSE IF Len(bins) = 0 THEN [err |-> TRUE, bin |-> <<>>]
    ELSE IF Len(bins) = 1 THEN [err |-> FALSE, bin |-> Base(bins[1])]
    ELSE LET m == MatchShortName(bins, packageShortName(pkg))
         IN  IF m.found THEN [err |-> FALSE, bin |-> m.bin]
             ELSE [err |-> FALSE, bin |-> Base(bins[1])]

PkgSamples == {<<"vendor", "/", "tool">>, <<"tool">>, <<"vendor", "/", "tool", "/", "x">>}

BinSamples ==
    {<<"bin", "/", "tool">>, <<"bin", "/", "tool", ".phar">>, <<"bin", "/", "other">>,
     <<"tool">>, <<"bin", "/", "vendor">>, <<"other", ".phar">>}

InferredIdle ==
    inferred = [pkg |-> <<>>, bins |-> <<>>, from |-> <<>>, done |-> FALSE,
                out |-> [err |-> FALSE, bin |-> <<>>]]

InferInit ==
    \E pkg \in PkgSamples, bins \in SeqsUpTo(BinSamples, MaxBins),
       from \in {<<>>, <<"custom">>} :
       inferred = [pkg |-> pkg, bins |-> bins, from |-> from, done |-> FALSE,
                   out |-> [err |-> FALSE, bin |-> <<>>]]

InferApply ==
    /\ ~inferred.done
    /\ inferred' = [inferred EXCEPT
                       !.done = TRUE,
                       !.out = InferBinary(inferred.pkg, inferred.bins, inferred.from)]
    /\ UNCHANGED <<manager, mrun, meta, inst, wrap, sess, hreq, sock>>
    /\ UNCHANGED <<runVars, filterVars, tarVars, secondVars>>

\* ------------------------------------------- environment of composer
\* "COMPOSER_HOME="+filepath.Join(destDir, ".composer").
ComposerHome == <<"COMPOSER_HOME", "=", "dest/.composer">>

\* cmd.Env of InstallDeps and of InstallTool:
\* append(os.Environ(), "COMPOSER_HOME=...").
InstallEnv(environ) == Append(environ, ComposerHome)

InstIdle == inst = [environ |-> <<>>, kind |-> "", started |-> TRUE, env |-> <<>>]

InstInit ==
    \E keep \in SUBSET (1..Len(EnvironSamples)), kind \in {"deps", "tool"} :
        inst = [environ |-> SelectSeq(EnvironSamples,
                                      LAMBDA e : \E i \in keep : EnvironSamples[i] = e),
                kind |-> kind, started |-> FALSE, env |-> <<>>]

\* InstallDeps or InstallTool up to cmd.Run: the environment composer is
\* started with.
InstallRun ==
    /\ ~inst.started
    /\ inst' = [inst EXCEPT !.started = TRUE, !.env = InstallEnv(inst.environ)]
    /\ UNCHANGED <<manager, mrun, meta, inferred, wrap, sess, hreq, sock>>
    /\ UNCHANGED <<runVars, filterVars, tarVars, secondVars>>

\* ------------------------------------------------- one tunnel session
\* The most chunks copied in one direction.
MaxChunks == 2

Directions == {"c2u", "u2c"}

\* The socket a copy task reads from and the one it writes to.
SourceOf(d) == IF d = "c2u" THEN "client" ELSE "target"
SinkOf(d) == IF d = "c2u" THEN "target" ELSE "client"

SessIdle ==
    sess = [kind |-> "", task |-> [d \in Directions |-> "done"],
            copied |-> [d \in Directions |-> 0],
            eof |-> [s \in {"client", "target"} |-> FALSE],
            closed |-> [s \in {"client", "target"} |-> TRUE],
            closeWrite |-> [s \in {"client", "target"} |-> FALSE],
            returned |-> TRUE]

\* handleConnect after "200 Connection Established", or handleRequest of the
\* SOCKS5 proxy after the success reply: both copy tasks have been started.
SessInit ==
    \E kind \in {"connect", "socks5"} :
       sess = [kind |-> kind, task |-> [d \in Directions |-> "copying"],
               copied |-> [d \in Directions |-> 0],
               eof |-> [s \in {"client", "target"} |-> FALSE],
               closed |-> [s \in {"client", "target"} |-> FALSE],
               closeWrite |-> [s \in {"client", "target"} |-> FALSE],
               returned |-> FALSE]

\* A peer finishes sending: the next read from its socket is the end of file.
PeerEnds(s) ==
    /\ ~sess.eof[s]
    /\ ~sess.closed[s]
    /\ sess' = [sess EXCEPT !.eof[s] = TRUE]
    /\ UNCHANGED <<manager, mrun, meta, inferred, inst, wrap, hreq, sock>>
    /\ UNCHANGED <<runVars, filterVars, tarVars, secondVars>>

\* io.Copy moves a chunk.
CopyChunk(d) ==
    /\ sess.task[d] = "copying"
    /\ sess.copied[d] < MaxChunks
    /\ ~sess.eof[SourceOf(d)] /\ ~sess.closed[SourceOf(d)] /\ ~sess.closed[SinkOf(d)]
    /\ sess' = [sess EXCEPT !.copied[d] = @ + 1]
    /\ UNCHANGED <<manager, mrun, meta, inferred, inst, wrap, hreq, sock>>
    /\ UNCHANGED <<runVars, filterVars, tarVars, secondVars>>

\* io.Copy returns, at the end of file of its source or because a socket was
\* closed, and the task does what follows it: in handleConnect it closes the
\* socket it wrote to; in the SOCKS5 relay it half-closes it (CloseWrite) and
\* reports to the WaitGroup.
CopyEnds(d) ==
    /\ sess.task[d] = "copying"
    /\ sess.eof[SourceOf(d)] \/ sess.closed[SourceOf(d)] \/ sess.closed[SinkOf(d)]
    /\ IF sess.kind = "connect"
       THEN sess' = [sess EXCEPT !.task[d] = "done", !.closed[SinkOf(d)] = TRUE]
       ELSE sess' = [sess EXCEPT !.task[d] = "done", !.closeWrite[SinkOf(d)] = TRUE]
    /\ UNCHANGED <<manager, mrun, meta, inferred, inst, wrap, hreq, sock>>
    /\ UNCHANGED <<runVars, filterVars, tarVars, secondVars>>

\* wg.Wait of the SOCKS5 relay returns, handleRequest returns and the
\* deferred target.Close and conn.Close run.
RelayReturns ==
    /\ sess.kind = "socks5"
    /\ ~sess.returned
    /\ \A d \in Directions : sess.task[d] = "done"
    /\ sess' = [sess EXCEPT !.returned = TRUE,
                            !.closed = [s \in {"client", "target"} |-> TRUE]]
    /\ UNCHANGED <<manager, mrun, meta, inferred, inst, wrap, hreq, sock>>
    /\ UNCHANGED <<runVars, filterVars, tarVars, secondVars>>

\* ------------------------------------------------- proxy requests
\* Filters of a running proxy: nothing allowed, one domain, one wildcard,
\* everything.
ProxyFilters ==
    {NewDomainFilter, AddAllowed(NewDomainFilter, <<"a">>),
     AddAllowed(NewDomainFilter, <<"*", ".", "a">>), AllowAll(NewDomainFilter)}

\* Host texts a client names: allowed and not, with and without a port, none.
TargetSamples == {<<>>, <<"a">>, <<"b">>, <<"x", ".", "a">>, <<"a", ":", "8">>, <<"b", ":", "8">>}

\* strings.Contains(host, ":").
HasColon(hst) == \E i \in 1..Len(hst) : hst[i] = ":"

\* Request.Host taken from the Host header even when the request line names
\* a host.
RequestHostHeaderFirst(urlHost, headerHost) ==
    IF headerHost # <<>> THEN headerHost ELSE urlHost

\* Request.Host as the HTTP server hands it to the handler: the host of the
\* request line, and the Host header only when the request line names none.
RequestHost(urlHost, headerHost) ==
    IF urlHost # <<>> THEN urlHost ELSE headerHost

NoAnswer == [checked |-> <<>>, status |-> 0, dialed |-> <<>>, upstream |-> FALSE]

\* handleConnect: filter on r.Host, then dial it, with :443 when it has no port.
handleConnect(r, flt, dialOk) ==
    LET hst == RequestHost(r.urlHost, r.headerHost)
        target == IF HasColon(hst) THEN hst ELSE hst \o <<":", "4", "4", "3">>
    IN  IF ~IsAllowed(flt, hst)
        THEN [checked |-> hst, status |-> 403, dialed |-> <<>>, upstream |-> FALSE]
        ELSE IF ~dialOk
             THEN [checked |-> hst, status |-> 502, dialed |-> target, upstream |-> FALSE]
             ELSE [checked |-> hst, status |-> 200, dialed |-> target, upstream |-> TRUE]

\* handleHTTP: filter on r.Host (r.URL.Host when empty), then client.Do on
\* r.URL, which fails before any dial when the URL names no host.
handleHTTP(r, flt, dialOk) ==
    LET rhost == RequestHost(r.urlHost, r.headerHost)
        hst == IF rhost = <<>> THEN r.urlHost ELSE rhost
        target == IF HasColon(r.urlHost) THEN r.urlHost ELSE r.urlHost \o <<":", "8", "0">>
    IN  IF ~IsAllowed(flt, hst)
        THEN [checked |-> hst, status |-> 403, dialed |-> <<>>, upstream |-> FALSE]
        ELSE IF r.urlHost = <<>>
             THEN [checked |-> hst, status |-> 502, dialed |-> <<>>, upstream |-> FALSE]
             ELSE IF ~dialOk
                  THEN [checked |-> hst, status |-> 502, dialed |-> target, upstream |-> FALSE]
                  ELSE [checked |-> hst, status |-> 200, dialed |-> target, upstream |-> TRUE]

HreqIdle ==
    hreq = [state |-> "answered", method |-> "", urlHost |-> <<>>, headerHost |-> <<>>,
            filter |-> NewDomainFilter, answer |-> NoAnswer]

HreqInit ==
    \E method \in {"CONNECT", "GET"}, urlHost \in TargetSamples, headerHost \in TargetSamples,
       flt \in ProxyFilters :
       hreq = [state |-> "received", method |-> method, urlHost |-> urlHost,
               headerHost |-> headerHost, filter |-> flt, answer |-> NoAnswer]

\* Proxy.handleRequest.
ProxyHandleRequest ==
    /\ hreq.state = "received"
    /\ \E dialOk \in BOOLEAN :
          hreq' = [hreq EXCEPT !.state = "answered",
                               !.answer = IF hreq.method = "CONNECT"
                                          THEN handleConnect(hreq, hreq.filter, dialOk)
                                          ELSE handleHTTP(hreq, hreq.filter, dialOk)]
    /\ UNCHANGED <<manager, mrun, meta, inferred, inst, wrap, sess, sock>>
    /\ UNCHANGED <<runVars, filterVars, tarVars, secondVars>>

\* ------------------------------------------------- SOCKS5 connections
socks5Version == 5
authNone == 0
authNoAccept == 255
cmdConnect == 1
atypIPv4 == 1
atypDomain == 3
atypIPv6 == 4
repSuccess == 0
repConnNotAllowed == 2
repHostUnreachable == 4
repCmdNotSupported == 7
repAddrNotSupported == 8

\* Greetings a client sends: version byte and method list.
Greetings == [ver : {4, socks5Version}, methods : {<<>>, <<authNone>>, <<2>>, <<2, authNone>>}]

\* Requests a client sends after it: version, command, address type, address
\* (an IP address in its text form, or the domain) and port.
SocksRequests ==
    [ver : {4, socks5Version}, cmd : {cmdConnect, 2}, port : {80},
     atyp : {atypDomain}, addr : {<<"a">>, <<"b">>, <<"x", ".", "a">>}]
        \cup [ver : {socks5Version}, cmd : {cmdConnect}, port : {80},
              atyp : {atypIPv4}, addr : {<<"1", ".", "2">>}]
        \cup [ver : {socks5Version}, cmd : {cmdConnect}, port : {80},
              atyp : {atypIPv6}, addr : {<<":", ":", "1">>}]
        \cup [ver : {socks5Version}, cmd : {cmdConnect}, port : {80},
              atyp : {9}, addr : {<<>>}]

SockIdle ==
    sock = [pc |-> "closed", greeting |-> [ver |-> socks5Version, methods |-> <<authNone>>],
            request |-> [ver |-> socks5Version, cmd |-> cmdConnect, port |-> 80,
                         atyp |-> atypDomain, addr |-> <<>>],
            filter |-> NewDomainFilter, wrote |-> <<>>, readRequest |-> FALSE,
            checked |-> <<>>, dialed |-> <<>>, upstream |-> FALSE]

\* acceptLoop has started handleConnection for an accepted connection.
SockInit ==
    \E g \in Greetings, r \in SocksRequests, flt \in ProxyFilters :
       sock = [pc |-> "greeting", greeting |-> g, request |-> r, filter |-> flt,
               wrote |-> <<>>, readRequest |-> FALSE, checked |-> <<>>, dialed |-> <<>>,
               upstream |-> FALSE]

\* handleGreeting: the error it returns, and what it wrote.
handleGreeting(g) ==
    IF g.ver # socks5Version THEN [err |-> TRUE, wrote |-> <<>>]
    ELSE IF \E i \in 1..Len(g.methods) : g.methods[i] = authNone
         THEN [err |-> FALSE, wrote |-> <<<<socks5Version, authNone>>>>]
         ELSE [err |-> TRUE, wrote |-> <<<<socks5Version, authNoAccept>>>>]

\* handleConnection up to the end of the greeting: on an error it returns,
\* and its deferred conn.Close runs.
SockGreeting ==
    /\ sock.pc = "greeting"
    /\ LET g == handleGreeting(sock.greeting)
       IN  sock' = [sock EXCEPT !.wrote = @ \o g.wrote,
                                !.pc = IF g.err THEN "closed" ELSE "request"]
    /\ UNCHANGED <<manager, mrun, meta, inferred, inst, wrap, sess, hreq>>
    /\ UNCHANGED <<runVars, filterVars, tarVars, secondVars>>

\* net.DialTimeout refuses an address whose host has a colon and no brackets.
CanDial(hst) == ~HasColon(hst)

\* SOCKS5Proxy.handleRequest up to the relay: reply, checked and dialled
\* address, and whether an upstream connection is open.
socksRequest(r, flt, dialOk) ==
    LET hst == r.addr
        hostWithPort == hst \o <<":">> \o Decimal(r.port)
        none == [reply |-> <<>>, checked |-> <<>>, dialed |-> <<>>, upstream |-> FALSE]
    IN  IF r.ver # socks5Version THEN none
        ELSE IF r.cmd # cmdConnect
             THEN [none EXCEPT !.reply = <<<<socks5Version, repCmdNotSupported>>>>]
        ELSE IF r.atyp \notin {atypIPv4, atypDomain, atypIPv6}
             THEN [none EXCEPT !.reply = <<<<socks5Version, repAddrNotSupported>>>>]
        ELSE IF ~IsAllowed(flt, hostWithPort)
             THEN [none EXCEPT !.reply = <<<<socks5Version, repConnNotAllowed>>>>,
                               !.checked = hostWithPort]
        ELSE IF ~dialOk \/ ~CanDial(hst)
             THEN [reply |-> <<<<socks5Version, repHostUnreachable>>>>,
                   checked |-> hostWithPort, dialed |-> hostWithPort, upstream |-> FALSE]
             ELSE [reply |-> <<<<socks5Version, repSuccess>>>>,
                   checked |-> hostWithPort, dialed |-> hostWithPort, upstream |-> TRUE]

\* handleConnection calls handleRequest after an accepted greeting.
SockRequest ==
    /\ sock.pc = "request"
    /\ \E dialOk \in BOOLEAN :
          LET a == socksRequest(sock.request, sock.filter, dialOk)
          IN  sock' = [sock EXCEPT !.readRequest = TRUE,
                                   !.wrote = @ \o a.reply,
                                   !.checked = a.checked,
                                   !.dialed = a.dialed,
                                   !.upstream = a.upstream,
                                   !.pc = IF a.upstream THEN "relay" ELSE "closed"]
    /\ UNCHANGED <<manager, mrun, meta, inferred, inst, wrap, sess, hreq>>
    /\ UNCHANGED <<runVars, filterVars, tarVars, secondVars>>

\* The relay ends (wg.Wait), handleRequest returns and the deferred
\* target.Close and conn.Close run.
SockRelayEnds ==
    /\ sock.pc = "relay"
    /\ sock' = [sock EXCEPT !.pc = "closed", !.upstream = FALSE]
    /\ UNCHANGED <<manager, mrun, meta, inferred, inst, wrap, sess, hreq>>
    /\ UNCHANGED <<runVars, filterVars, tarVars, secondVars>>

\* ------------------------------------------------- socket bridge wrapper
\* The attempts of the wrapper's loop (for i in 1 2 ... 10).
PollAttempts == 10

\* Exit statuses of the child command.
ChildStatuses == {0, 1, 42, 137}

WrapIdle ==
    wrap = [pc |-> "exited", nc |-> FALSE, socat |-> "none", polls |-> 0, sleeps |-> 0,
            connected |-> FALSE, childRan |-> FALSE, EXIT_CODE |-> 0, killSent |-> FALSE,
            last |-> 0, status |-> 0]

\* sh -c starts the text BuildSocatBridgeCommand built; nc may be missing
\* from the confined file system.
WrapInit ==
    \E nc \in BOOLEAN :
       wrap = [pc |-> "start", nc |-> nc, socat |-> "none", polls |-> 0, sleeps |-> 0,
               connected |-> FALSE, childRan |-> FALSE, EXIT_CODE |-> 0, killSent |-> FALSE,
               last |-> 0, status |-> 0]

\* socat TCP-LISTEN:...,fork,reuseaddr UNIX-CONNECT:... & and SOCAT_PID=$!
WrapStartSocat ==
    /\ wrap.pc = "start"
    /\ wrap' = [wrap EXCEPT !.pc = "poll", !.socat = "starting"]
    /\ UNCHANGED <<manager, mrun, meta, inferred, inst, sess, hreq, sock>>
    /\ UNCHANGED <<runVars, filterVars, tarVars, secondVars>>

\* The forwarder, running in the background, binds its port or fails and exits.
SocatProgress ==
    /\ wrap.socat = "starting"
    /\ \E s \in {"listening", "dead"} : wrap' = [wrap EXCEPT !.socat = s]
    /\ UNCHANGED <<manager, mrun, meta, inferred, inst, sess, hreq, sock>>
    /\ UNCHANGED <<runVars, filterVars, tarVars, secondVars>>

\* One round of the loop: nc -z 127.0.0.1 PORT; break on success, else
\* sleep 0.05; the loop ends after the last attempt.
WrapPoll ==
    /\ wrap.pc = "poll"
    /\ wrap.polls < PollAttempts
    /\ LET ok == wrap.nc /\ wrap.socat = "listening"
       IN  wrap' = [wrap EXCEPT !.polls = @ + 1,
                                !.connected = ok,
                                !.sleeps = IF ok THEN @ ELSE @ + 1,
                                !.pc = IF ok \/ wrap.polls + 1 = PollAttempts
                                       THEN "child" ELSE "poll"]
    /\ UNCHANGED <<manager, mrun, meta, inferred, inst, sess, hreq, sock>>
    /\ UNCHANGED <<runVars, filterVars, tarVars, secondVars>>

\* The child command runs to its end; EXIT_CODE=$?
WrapChild ==
    /\ wrap.pc = "child"
    /\ \E code \in ChildStatuses :
          wrap' = [wrap EXCEPT !.pc = "kill", !.childRan = TRUE, !.EXIT_CODE = code,
                               !.last = code]
    /\ UNCHANGED <<manager, mrun, meta, inferred, inst, sess, hreq, sock>>
    /\ UNCHANGED <<runVars, filterVars, tarVars, secondVars>>

\* kill $SOCAT_PID 2>/dev/null: status 1 when the forwarder is gone already.
WrapKill ==
    /\ wrap.pc = "kill"
    /\ wrap' = [wrap EXCEPT !.pc = "exit", !.killSent = TRUE,
                            !.last = IF wrap.socat = "dead" THEN 1 ELSE 0,
                            !.socat = "dead"]
    /\ UNCHANGED <<manager, mrun, meta, inferred, inst, sess, hreq, sock>>
    /\ UNCHANGED <<runVars, filterVars, tarVars, secondVars>>

\* A script ending without its exit line: the status of the last command.
ScriptStatusLast(w) == w.last

\* exit $EXIT_CODE
ScriptStatus(w) == w.EXIT_CODE

WrapExit ==
    /\ wrap.pc = "exit"
    /\ wrap' = [wrap EXCEPT !.pc = "exited", !.status = ScriptStatus(wrap)]
    /\ UNCHANGED <<manager, mrun, meta, inferred, inst, sess, hreq, sock>>
    /\ UNCHANGED <<runVars, filterVars, tarVars, secondVars>>

\* ------------------------------------------------- reachable endpoints
\* The proxy endpoints a child can connect to under each kind of network
\* ChildNet names: the TCP ports of the HTTP and SOCKS5 proxies on the host's
\* loopback address, or the bridge port inside the child's own namespace.
Reachable(net) ==
    CASE net = "host" -> {"proxy", "socks"}
      [] net = "proxyonly" -> {"proxy"}
      [] net = "bridge" -> {"bridge"}
      [] OTHER -> {}

\* ------------------------------------------------------ third groups

ThirdIdle ==
    /\ MgrIdle /\ ParsedIdle /\ InferredIdle /\ InstIdle /\ WrapIdle
    /\ SessIdle /\ HreqIdle /\ SockIdle

\* ------------------------------------------------------ groups at rest
SecondIdle == NormIdle /\ HashIdle /\ EnvIdle /\ IndexIdle /\ CacheIdle
LaterIdle == SecondIdle /\ ThirdIdle

\* --------------------------------------------------------- specifications
\* The run pipeline.
Init == RunInit /\ FilterIdle /\ TarIdle /\ LaterIdle

Next ==
    \/ LoadIndexFails
    \/ LoadIndex
    \/ DoResolve
    \/ EnsurePHP
    \/ InstallDeps
    \/ DetermineSandbox
    \/ StartProxy
    \/ Execute
    \/ ExecuteFails
    \/ ChildConnect
    \/ ChildExit
    \/ ChildKilled
    \/ Finish

Spec == Init /\ [][Next]_vars

\* The domain filter.
FilterInit == RunIdle /\ FilterIdle /\ TarIdle /\ LaterIdle

FilterNext ==
    \/ FilterAllowAll
    \/ FilterAdd
    \/ FilterQuery

SpecFilter == FilterInit /\ [][FilterNext]_vars

\* The archive extraction.
ExtractInit == RunIdle /\ FilterIdle /\ TarInit /\ LaterIdle

ExtractNext ==
    \/ ExtractRejected
    \/ ExtractDir
    \/ ExtractFile
    \/ ExtractSymlink
    \/ ExtractEOF

SpecExtract == ExtractInit /\ [][ExtractNext]_vars

\* The resolver on its own: an index is fetched, then a request is resolved.
\* Constraints given with php = "..." or --php.
ConstraintSamples ==
    {<<>>,
     <<Cmp(">=", <<8, 3, 0>>)>>,
     <<Cmp(">=", <<9, 0, 0>>)>>,
     <<Cmp("~", <<8, 3, 0>>)>>,
     <<Cmp("=", <<8, 2, 27>>)>>,
     <<Cmp("^", <<8, 2, 0>>), Sp, Cmp("<", <<8, 4, 0>>)>>,
     <<Cmp("~", <<8, 2, 0>>), Pipe, Cmp(">=", <<9, 0, 0>>)>>,
     <<Cmp(">=", <<9, 0, 0>>), Pipe, Pipe, Cmp("<", <<8, 3, 0>>)>>,
     <<Cmp("<", <<8, 3, 0>>), Sp, Pipe, Pipe, Sp, Cmp(">=", <<8, 4, 0>>)>>,
     <<Cmp("<", <<8, 3, 0>>), Pipe, Pipe, Pipe, Cmp(">=", <<8, 4, 0>>)>>,
     <<Cmp(">=", <<8, 3, 0>>), Pipe>>,
     <<Pipe>>}

ResolveInit ==
    /\ RunIdle
    /\ FilterIdle
    /\ TarIdle
    /\ LaterIdle

\* index.Refresh builds the index from what the endpoints list.
IndexRefresh ==
    /\ pc = "idle"
    /\ \E commonList \in SeqsUpTo(Versions, MaxListing),
          bulkList \in SeqsUpTo(Versions, MaxListing),
          commonExt \in SUBSET ExtNames, bulkExt \in SUBSET ExtNames :
          idx' = Refresh(commonList, bulkList, commonExt, bulkExt)
    /\ pc' = "loaded"
    /\ UNCHANGED <<flags, host, req, res, err, phpCache, downloads, sb, proxyMgr, child,
                   attempts, proxySeen, rawConns, exitCode>>
    /\ UNCHANGED <<filterVars, tarVars, laterVars>>

\* php.Resolve for a constraint and a list of extensions.
ResolveRequest ==
    /\ pc = "loaded"
    /\ \E c \in ConstraintSamples, exts \in SeqsUpTo(ExtNames \cup {UnknownExt}, MaxExts) :
          /\ req' = [constraint |-> c, extensions |-> exts, packages |-> FALSE]
          /\ res' = Resolve(idx, c, exts, phpCache)
    /\ pc' = "resolved"
    /\ UNCHANGED <<flags, host, idx, err, phpCache, downloads, sb, proxyMgr, child,
                   attempts, proxySeen, rawConns, exitCode>>
    /\ UNCHANGED <<filterVars, tarVars, laterVars>>

ResolveNext ==
    \/ IndexRefresh
    \/ ResolveRequest

SpecResolve == ResolveInit /\ [][ResolveNext]_vars

\* Constraint normalisation on its own.
NormSpecInit == RunIdle /\ FilterIdle /\ TarIdle /\ NormInit /\ HashIdle /\ EnvIdle /\ IndexIdle /\ CacheIdle /\ ThirdIdle

NormNext == NormApply

SpecNorm == NormSpecInit /\ [][NormNext]_vars

\* The deps cache key on its own.
HashSpecInit == RunIdle /\ FilterIdle /\ TarIdle /\ NormIdle /\ HashInit /\ EnvIdle /\ IndexIdle /\ CacheIdle /\ ThirdIdle

HashNext == HashBoth

SpecHash == HashSpecInit /\ [][HashNext]_vars

\* The environment of the command on its own.
EnvSpecInit == RunIdle /\ FilterIdle /\ TarIdle /\ NormIdle /\ HashIdle /\ EnvInit /\ IndexIdle /\ CacheIdle /\ ThirdIdle

EnvNext == EnvExecute

SpecEnv == EnvSpecInit /\ [][EnvNext]_vars

\* The index cache used by two processes.
IndexSpecInit ==
    RunIdle /\ FilterIdle /\ TarIdle /\ NormIdle /\ HashIdle /\ EnvIdle /\ IndexInit /\ CacheIdle
    /\ ThirdIdle

IndexNext ==
    \/ IndexTick
    \/ \E p \in Procs : LoadStart(p)
    \/ \E p \in Procs : LoadCached(p)
    \/ \E p \in Procs : RefreshStart(p)
    \/ \E p \in Procs : RefreshFetch(p)
    \/ \E p \in Procs : SaveWrite(p)

SpecIndex == IndexSpecInit /\ [][IndexNext]_vars

\* One index saved into an empty directory and loaded again.
SaveSpecInit ==
    RunIdle /\ FilterIdle /\ TarIdle /\ NormIdle /\ HashIdle /\ EnvIdle /\ SaveInit /\ CacheIdle
    /\ ThirdIdle

SaveNext ==
    \/ SaveWrite(1)
    \/ LoadStart(1)
    \/ LoadCached(1)

SpecSave == SaveSpecInit /\ [][SaveNext]_vars

\* Runs of scripts by two processes over one cache directory.
CacheSpecInit ==
    /\ RunIdle /\ FilterIdle /\ TarIdle /\ NormIdle /\ HashIdle /\ EnvIdle
    /\ clock = 0 /\ indexDir = EmptyDir /\ committed = {} /\ started = 0
    /\ procs = [p \in Procs |-> [IdleProc EXCEPT !.pc = "off"]]
    /\ CacheInit
    /\ ThirdIdle

CacheNext ==
    \/ IndexTick
    \/ \E p \in Procs : RunLoad(p)
    \/ \E p \in Procs : RunResolve(p)
    \/ \E p \in Procs : RunEnsurePHP(p)
    \/ \E p \in Procs : RunExtract(p)
    \/ \E p \in Procs : RunDeps(p)
    \/ \E p \in Procs : DownloadComposer(p)
    \/ \E p \in Procs : ComposerCopy(p)
    \/ \E p \in Procs : InstallDepsStart(p)
    \/ \E p \in Procs : InstallDepsEnd(p)
    \/ \E p \in Procs : RunExecute(p)

SpecCache == CacheSpecInit /\ [][CacheNext]_vars

\* One Run of the executor with its proxy manager.
MgrSpecInit ==
    /\ RunIdle /\ FilterIdle /\ TarIdle /\ SecondIdle
    /\ MgrInit /\ ParsedIdle /\ InferredIdle /\ InstIdle /\ WrapIdle
    /\ SessIdle /\ HreqIdle /\ SockIdle

MgrNext ==
    \/ MgrNewManager
    \/ MgrExecute
    \/ MgrReturn
    \/ MgrStopAgain

SpecManager == MgrSpecInit /\ [][MgrNext]_vars

\* metadata.Parse applied to one script.
MetaSpecInit ==
    /\ RunIdle /\ FilterIdle /\ TarIdle /\ SecondIdle
    /\ MgrIdle /\ MetaInit /\ InferredIdle /\ InstIdle /\ WrapIdle
    /\ SessIdle /\ HreqIdle /\ SockIdle

MetaNext == MetaParse

SpecMeta == MetaSpecInit /\ [][MetaNext]_vars

\* composer.InferBinary applied to one package.
InferSpecInit ==
    /\ RunIdle /\ FilterIdle /\ TarIdle /\ SecondIdle
    /\ MgrIdle /\ ParsedIdle /\ InferInit /\ InstIdle /\ WrapIdle
    /\ SessIdle /\ HreqIdle /\ SockIdle

InferNext == InferApply

SpecInfer == InferSpecInit /\ [][InferNext]_vars

\* One start of composer by the installer.
InstSpecInit ==
    /\ RunIdle /\ FilterIdle /\ TarIdle /\ SecondIdle
    /\ MgrIdle /\ ParsedIdle /\ InferredIdle /\ InstInit /\ WrapIdle
    /\ SessIdle /\ HreqIdle /\ SockIdle

InstNext == InstallRun

SpecInst == InstSpecInit /\ [][InstNext]_vars

\* One CONNECT tunnel or SOCKS5 relay.
SessSpecInit ==
    /\ RunIdle /\ FilterIdle /\ TarIdle /\ SecondIdle
    /\ MgrIdle /\ ParsedIdle /\ InferredIdle /\ InstIdle /\ WrapIdle
    /\ SessInit /\ HreqIdle /\ SockIdle

SessNext ==
    \/ \E s \in {"client", "target"} : PeerEnds(s)
    \/ \E d \in Directions : CopyChunk(d)
    \/ \E d \in Directions : CopyEnds(d)
    \/ RelayReturns

SpecSession == SessSpecInit /\ [][SessNext]_vars

\* One request to the HTTP proxy, or one connection to the SOCKS5 proxy.
ProxySpecInit ==
    /\ RunIdle /\ FilterIdle /\ TarIdle /\ SecondIdle
    /\ MgrIdle /\ ParsedIdle /\ InferredIdle /\ InstIdle /\ WrapIdle /\ SessIdle
    /\ \/ HreqInit /\ SockIdle
       \/ HreqIdle /\ SockInit

ProxyNext ==
    \/ ProxyHandleRequest
    \/ SockGreeting
    \/ SockRequest
    \/ SockRelayEnds

SpecProxy == ProxySpecInit /\ [][ProxyNext]_vars

\* One run of the socket bridge wrapper.
WrapSpecInit ==
    /\ RunIdle /\ FilterIdle /\ TarIdle /\ SecondIdle
    /\ MgrIdle /\ ParsedIdle /\ InferredIdle /\ InstIdle /\ WrapInit
    /\ SessIdle /\ HreqIdle /\ SockIdle

WrapNext ==
    \/ WrapStartSocat
    \/ SocatProgress
    \/ WrapPoll
    \/ WrapChild
    \/ WrapKill
    \/ WrapExit

SpecWrap == WrapSpecInit /\ [][WrapNext]_vars

\* ------------------------------------------------------------- properties
Requested == flags.sandbox \/ flags.offline \/ flags.allowHost

\* C1: when the run is over, the status the caller observes is the exit code
\* the child ended with, and it is 1 when the runner failed before a child
\* was started.
C1_ExitCodePropagated ==
    pc = "done" =>
        /\ child.status = "exited" => exitCode = child.code
        /\ ~child.started => exitCode = 1

C1_Witness ==
    pc = "done" /\ child.started /\ child.status = "exited" /\ child.code = 42 /\ exitCode = 42

\* C2: with --offline a started child runs under a sandboxed backend with no
\* network access, no proxy manager exists, and neither a proxy nor the
\* outside world sees a connection from it.
C2_OfflineNoNetwork ==
    flags.offline /\ child.started =>
        /\ IsSandboxed(sb)
        /\ child.net = "none"
        /\ ~proxyMgr.created
        /\ proxySeen = 0
        /\ rawConns = 0

C2_Witness ==
    flags.offline /\ sb = "nsjail" /\ child.status = "exited" /\ attempts > 0 /\ pc = "done"

\* C3: a child started under a sandboxed backend with network allowed never
\* has the network of the host: it makes no connection except through the proxy.
C3_NoRawNetworking ==
    child.started /\ IsSandboxed(sb) /\ Network => child.net # "host" /\ rawConns = 0

\* C4: when sandboxing is requested and detection yields the passthrough
\* backend, the run ends with the sandbox error and exit code 1, and no child
\* is ever started.
C4_SandboxUnavailable ==
    Requested /\ sb = "none" =>
        /\ pc = "done"
        /\ exitCode = 1
        /\ err = "no sandbox is available on this system"
        /\ ~child.started
        /\ child.status = "none"

C4_Witness == flags.allowHost /\ ~flags.sandbox /\ sb = "none" /\ pc = "done" /\ exitCode = 1

\* C10: once the index is loaded, a request naming an extension of neither
\* tier ends in the resolver's error with no interpreter download started.
UnknownRequested ==
    \E i \in 1..Len(req.extensions) :
        req.extensions[i] \notin idx.CommonExtensions \cup idx.BulkExtensions

C10_UnknownExtensionBeforeDownload ==
    idx.loaded /\ UnknownRequested =>
        /\ downloads = 0
        /\ pc # "loaded" =>
              /\ pc = "done"
              /\ ~res.ok
              /\ err = "extension not available in static PHP builds"
              /\ exitCode = 1

C10_Witness ==
    /\ pc = "done"
    /\ idx.loaded
    /\ UnknownRequested
    /\ phpCache = {}
    /\ err = "extension not available in static PHP builds"

\* The entries given to the filter, as AddAllowed keeps them: trimmed and lowercased.
Kept == {ToLower(TrimSpace(added[i])) : i \in 1..Len(added)} \ {<<>>}
IsWildcard(e) == Len(e) >= 2 /\ e[1] = "*" /\ e[2] = "."
ExactEntries == {e \in Kept : ~IsWildcard(e)}
WildcardSuffixes == {SubSeq(e, 2, Len(e)) : e \in {k \in Kept : IsWildcard(k)}}

\* A host with its port (the last colon onward) removed, lowercased.
PortStripped(h) ==
    LET colons == {k \in 1..Len(h) : h[k] = ":"}
        cut == IF colons = {} THEN Len(h)
               ELSE (CHOOSE k \in colons : \A j \in colons : j <= k) - 1
    IN  ToLower(SubSeq(h, 1, cut))

\* C5: IsAllowed(h) is true exactly when allow-all is set, or h, port
\* stripped and lowercased, equals an exact entry or ends with a wildcard
\* suffix; under *.example.com, api.example.com is allowed and example.com is not.
C5_IsAllowedIff ==
    query.asked =>
        /\ query.result <=>
              \/ filter.allowAll
              \/ PortStripped(query.host) \in ExactEntries
              \/ \E sfx \in WildcardSuffixes : HasSuffix(PortStripped(query.host), sfx)
        /\ added = <<WildExampleCom>> /\ query.host = ApiExampleCom => query.result
        /\ added = <<WildExampleCom>> /\ query.host = ExampleCom => ~query.result

C5_Witness ==
    /\ query.asked
    /\ added = <<WildExampleCom>>
    /\ query.host = ExampleCom
    /\ ~query.result

\* A physical path strictly inside the destination directory, or the
\* destination directory itself.
Inside(path) == HasPrefix(path, Dest) /\ Len(path) > Len(Dest)
InsideOrDest(path) == HasPrefix(path, Dest)

\* Where the symlink at physical path l leads: the lookup of its contents
\* from its directory, or their lexical resolution when the lookup fails.
LinkResolved(l) ==
    LET from == IF fs[l].abs THEN <<>> ELSE DirOf(l)
        w == Walk(fs, from, fs[l].to, MaxFollow, TRUE)
    IN  IF w.ok THEN w.path ELSE CleanAcc(fs[l].to, from)

\* C6: everything extraction created or wrote lies strictly inside the
\* destination directory once symlinks are resolved, and every symlink it
\* created leads to a place inside the destination root.
C6_WritesInsideDest ==
    /\ \A path \in made : Inside(path)
    /\ \A l \in links : InsideOrDest(LinkResolved(l))

\* C7: when extraction aborts on the entry ../escape, nothing has been
\* created outside the destination directory.
C7_EscapeEntryAborts ==
    xerr.name = <<Up, "escape">> =>
        /\ xerr.kind = "invalid tar entry path"
        /\ \A path \in made : Inside(path)

\* C8: after a successful resolution every requested extension is in the
\* extension set of the chosen tier.
C8_ExtensionsInChosenTier ==
    pc = "resolved" /\ res.ok =>
        \A i \in 1..Len(req.extensions) : HasExtension(idx, req.extensions[i], res.Tier)

\* A version satisfies a constraint when the constraint is empty or one of
\* its alternatives (the stretches between pipes) has a comparator and all
\* its comparators hold.
Alternative(c, i, j) ==
    /\ i <= j
    /\ i = 1 \/ c[i - 1] = Pipe
    /\ j = Len(c) \/ c[j + 1] = Pipe
    /\ \A k \in i..j : c[k] # Pipe

Satisfies(c, v) ==
    \/ c = <<>>
    \/ \E i, j \in 1..Len(c) :
          /\ Alternative(c, i, j)
          /\ \E k \in i..j : c[k].k = "cmp"
          /\ \A k \in i..j : c[k].k = "cmp" => CmpHolds(c[k], v)

\* The tier a request needs: common unless an extension is missing from the common set.
NeededTier ==
    IF \A i \in 1..Len(req.extensions) : req.extensions[i] \in idx.CommonExtensions
    THEN "common" ELSE "bulk"

TierVersions(t) == IF t = "bulk" THEN Range(idx.BulkVersions) ELSE Range(idx.CommonVersions)

\* C9: a returned version is in the list of the chosen tier, satisfies the
\* constraint, and no version of that list satisfying the constraint is
\* greater; when no version of the needed tier satisfies the constraint,
\* resolution returns an error.
C9_HighestSatisfying ==
    pc = "resolved" =>
        /\ res.ok =>
              /\ res.Version \in TierVersions(res.Tier)
              /\ Satisfies(req.constraint, res.Version)
              /\ \A v \in TierVersions(res.Tier) :
                     Satisfies(req.constraint, v) => ~GreaterThan(v, res.Version)
        /\ (\A v \in TierVersions(NeededTier) : ~Satisfies(req.constraint, v)) => ~res.ok

C9_Witness ==
    /\ pc = "resolved"
    /\ res.ok
    /\ req.constraint = <<Cmp("~", <<8, 2, 0>>), Pipe, Cmp(">=", <<9, 0, 0>>)>>
    /\ res.Version = <<8, 2, 27>>
    /\ Len(idx.CommonVersions) = 2
    /\ res.Tier = "common"

\* C20: when the wall timeout elapses while the child runs, the child is
\* killed and the caller sees a non-zero exit status together with a
\* diagnostic of phpx.
C20_TimeoutSurfaced ==
    pc = "done" /\ child.status = "killed" =>
        /\ flags.timeout
        /\ exitCode # 0
        /\ Diagnostic(err, flags.verbose)

\* C17: normalising a constraint twice gives the string that normalising it
\* once gives.
C17_NormalizeIdempotent == norm.n = 2 => norm.out = norm.once

\* Occurrences of x in list.
Occurrences(list, x) == Cardinality({i \in 1..Len(list) : list[i] = x})

\* The two lists are the same multiset once every element is lowercased.
SameLoweredBag(p, q) ==
    LET lp == [i \in 1..Len(p) |-> ToLower(p[i])]
        lq == [i \in 1..Len(q) |-> ToLower(q[i])]
    IN  /\ Len(p) = Len(q)
        /\ \A x \in Range(lp) \cup Range(lq) : Occurrences(lp, x) = Occurrences(lq, x)

\* C18: package lists that are equal as multisets after lowercasing have the
\* same DepsHash.
C18_DepsHashOrderCase ==
    hashes.done /\ SameLoweredBag(hashes.p1, hashes.p2) => hashes.h1 = hashes.h2

C18_Witness ==
    /\ hashes.done
    /\ hashes.p1 = <<<<"a", "B">>, <<"a">>>>
    /\ hashes.p2 = <<<<"A">>, <<"a", "b">>>>
    /\ hashes.h1 = hashes.h2

\* The name of an environment entry and the names --allow-env gives.
EntryName(e) == SubSeq(e, 1, IndexEq(e) - 1)

AllowedNames ==
    {IF IndexEq(envrun.allow[i]) = 0 THEN envrun.allow[i] ELSE EntryName(envrun.allow[i]) :
        i \in 1..Len(envrun.allow)}

\* A variable the claim lets through: safelisted, LC_ or XDG_, or allowed.
MayPass(e) ==
    \/ EntryName(e) \in SafeEnvVars
    \/ Head(e) \in {"LC_", "XDG_"}
    \/ EntryName(e) \in AllowedNames

\* C19: under a sandboxed backend an entry of the parent environment is in
\* the environment of the command only if its name is safelisted, starts
\* with LC_ or XDG_ or was allowed with --allow-env; the passthrough backend
\* hands the parent environment over unchanged.
C19_EnvSafelist ==
    envrun.started =>
        IF IsSandboxed(envrun.backend)
        THEN \A i \in 1..Len(envrun.env) :
                envrun.env[i] \in Range(envrun.environ) => MayPass(envrun.env[i])
        ELSE envrun.env = envrun.environ

C19_Witness ==
    /\ envrun.started
    /\ envrun.backend = "bubblewrap"
    /\ envrun.mgr.socket /\ envrun.socat
    /\ <<"SECRET", "=", "s">> \in Range(envrun.environ)
    /\ <<"HTTP_PROXY", "=", "corp">> \in Range(envrun.environ)
    /\ <<"PATH", "=", "bin">> \in Range(envrun.env)
    /\ <<"SECRET", "=", "s">> \notin Range(envrun.env)
    /\ <<"HTTP_PROXY", "=", "corp">> \notin Range(envrun.env)
    /\ <<"HTTP_PROXY", "=", "bridge">> \in Range(envrun.env)


\* The directory holds exactly what one successful refresh saved.
HoldsRefresh(dir) ==
    \E i \in committed :
        \A k \in 1..6 : dir[IndexFiles[k]] = [exists |-> TRUE, text |-> SaveText(i, k)]

\* C14: whenever the directory holds a timestamp that Load accepts as fresh,
\* its six files are the complete result of one successful refresh; no
\* refresh that is under way or has failed leaves anything else beside it.
C14_FreshMeansComplete ==
    Fresh(indexDir["fetched_at"], clock) => HoldsRefresh(indexDir)

SameLists(a, b) ==
    /\ a.CommonVersions = b.CommonVersions
    /\ a.BulkVersions = b.BulkVersions
    /\ a.CommonExtensions = b.CommonExtensions
    /\ a.BulkExtensions = b.BulkExtensions
    /\ a.ComposerVersions = b.ComposerVersions

\* C16: an index that saveToCache wrote and Load read back has the same
\* common and bulk version lists in the same order, the same common and bulk
\* extensions and the same composer version list.
C16_SaveLoadRoundTrip ==
    (procs[1].op = "load" /\ procs[1].pc = "idle" /\ procs[1].path = "cache") =>
        /\ procs[1].ok
        /\ \A i \in committed : SameLists(procs[1].idx, i)

\* An index with versions, extensions and composer versions was saved and
\* read back.
C16_Witness ==
    /\ procs[1].op = "load" /\ procs[1].pc = "idle" /\ procs[1].path = "cache"
    /\ committed # {}
    /\ Len(procs[1].idx.CommonVersions) >= 2
    /\ procs[1].idx.CommonExtensions # <<>>
    /\ procs[1].idx.ComposerVersions # <<>>


LeafKinds == {"php", "composer", "deps"}

\* C11: whatever leaf a run looks at, when it checks the cache and when it
\* executes the interpreter, is complete or absent, never part-filled.
C11_LeafCompleteOrAbsent ==
    \A p \in Procs :
        /\ \A l \in LeafKinds : cruns[p].saw[l] \in {"unseen", "absent", "complete"}
        /\ cruns[p].ran \in {"unseen", "absent", "complete"}

\* C12: a run that finds a leaf which a failed or killed run left part-filled
\* treats it as a miss, and does not execute an interpreter left that way.
C12_BrokenLeafIsMiss ==
    \A p \in Procs :
        /\ \A l \in LeafKinds : cruns[p].saw[l] = "broken" => ~cruns[p].cached[l]
        /\ cruns[p].ran # "broken"

\* C13: a run that finds the index timestamp fresh, the interpreter
\* executable present and, for a script with packages, autoload.php present
\* makes no network request: no index fetch, no interpreter or composer
\* download and no dependency install.
C13_WarmRunNoNetwork ==
    \A p \in Procs :
        ( /\ cruns[p].fresh
          /\ cruns[p].saw.php \in {"writing", "broken", "complete"}
          /\ cruns[p].pkgs => cruns[p].saw.deps = "complete" ) =>
            /\ cruns[p].net = 0
            /\ cruns[p].pc \notin {"extract", "composer", "copy", "install", "installing"}

\* A script with packages ran to its end on a cache that earlier runs had
\* filled, without a request.
C13_Witness ==
    \E p \in Procs :
        /\ cruns[p].pc = "done" /\ cruns[p].pkgs /\ cruns[p].fresh
        /\ cruns[p].saw.php = "complete" /\ cruns[p].saw.deps = "complete"
        /\ cruns[p].ran = "complete" /\ cruns[p].net = 0
        /\ committed # {}

\* C21: Manager.Stop called again on a stopped manager ends without a panic
\* and leaves the manager as the first stop left it.
C21_StopIdempotent ==
    /\ ~mrun.panicked
    /\ mrun.stops >= 1 => ManagerStop(manager).m = manager

\* C28: a manager is made exactly when the backend is sandboxed, the network
\* is allowed and the HTTP proxy started; Run fails at this point only when
\* the HTTP proxy did not start; and when Run has returned, however the child
\* ended, no listener of the manager is open and the socket file is gone.
C28_ManagerLifecycle ==
    /\ mrun.pc # "start" =>
          (manager.created <=> (mrun.sandboxed /\ mrun.network /\ ~mrun.httpFailed))
    /\ mrun.err = "failed to start proxy" <=> mrun.httpFailed
    /\ mrun.httpFailed => mrun.sandboxed /\ mrun.network
    /\ mrun.pc = "returned" =>
          /\ ~manager.http.listening
          /\ ~manager.socks.listening
          /\ ~manager.socket.srv.listening
          /\ ~manager.socket.srv.file

\* A run whose child was killed by the timeout returned, with a manager that
\* had a Unix socket proxy and no SOCKS5 proxy.
C28_Witness ==
    /\ mrun.pc = "returned" /\ mrun.outcome = "timeout" /\ mrun.stops = 1
    /\ manager.created /\ manager.socket.present /\ ~manager.socks.present
    /\ manager.http.server

\* The index of the first line of the script that is the marker when trimmed;
\* 0 when there is none.
FirstMarker(c) ==
    IF \E i \in 1..Len(c) : TrimSpace(c[i]) = Marker
    THEN CHOOSE i \in 1..Len(c) :
            /\ TrimSpace(c[i]) = Marker
            /\ \A j \in 1..(i - 1) : TrimSpace(c[j]) # Marker
    ELSE 0

\* The comment lines that follow line i without a gap.
BlockAfter(c, i) ==
    LET isComment(k) == HasPrefix(TrimSpace(c[k]), <<"//">>)
        last == CHOOSE j \in i..Len(c) :
                   /\ \A k \in (i + 1)..j : isComment(k)
                   /\ j < Len(c) => ~isComment(j + 1)
    IN  SubSeq(c, i + 1, last)

\* C22: the metadata is the decoded block of comment lines that follows the
\* first marker line: the empty record without error when the script has no
\* marker line or the block is empty, an error when the block is malformed,
\* and nothing at or after the first line that is no comment counts.
C22_OnlyTheBlock ==
    meta.done =>
        LET c == meta.content
            i == FirstMarker(c)
        IN  IF i = 0 \/ BlockAfter(c, i) = <<>>
            THEN meta.out = EmptyMetadata
            ELSE meta.out = Decode(CollectToml(BlockAfter(c, i)))

\* The bin entries whose base name, without a trailing ".phar", is the short
\* name of the package.
ShortNameMatches(pkg, bins) ==
    {i \in 1..Len(bins) : TrimSuffix(Base(bins[i]), <<".phar">>) = packageShortName(pkg)}

\* C23: the binary is the override when one is given; else the base name of
\* the only bin entry; else the base name of the first entry that matches the
\* short name; else the base name of the first entry; and with no override
\* and no bin entry the result is the error.
C23_InferPriority ==
    inferred.done =>
        LET bins == inferred.bins
            hits == ShortNameMatches(inferred.pkg, bins)
            out == inferred.out
        IN  /\ inferred.from # <<>> => (~out.err /\ out.bin = inferred.from)
            /\ (inferred.from = <<>> /\ bins = <<>>) => out.err
            /\ (inferred.from = <<>> /\ Len(bins) = 1) =>
                  (~out.err /\ out.bin = Base(bins[1]))
            /\ (inferred.from = <<>> /\ Len(bins) >= 2 /\ hits # {}) =>
                  (~out.err /\ \E i \in hits :
                                  /\ \A j \in hits : i <= j
                                  /\ out.bin = Base(bins[i]))
            /\ (inferred.from = <<>> /\ Len(bins) >= 2 /\ hits = {}) =>
                  (~out.err /\ out.bin = Base(bins[1]))

\* Several bin entries, the first does not match the short name, a later one
\* with ".phar" does, and its base name was chosen.
C23_Witness ==
    /\ inferred.done /\ inferred.from = <<>> /\ Len(inferred.bins) >= 2
    /\ 1 \notin ShortNameMatches(inferred.pkg, inferred.bins)
    /\ inferred.out.bin = <<"tool", ".phar">>
    /\ Base(inferred.bins[1]) # inferred.out.bin

\* C24: composer, started for a dependency set or for a tool, gets the
\* environment FilterEnv lets through followed by COMPOSER_HOME inside the
\* destination directory, and no other variable of the parent.
C24_InstallerEnvSanitised ==
    inst.started => inst.env = Append(FilterEnv(inst.environ, <<>>), ComposerHome)

\* C25: in a CONNECT tunnel and in a SOCKS5 relay the client socket is
\* closed only when both copy tasks have finished.
C25_CloseAfterBothCopies ==
    sess.closed["client"] => \A d \in Directions : sess.task[d] = "done"

\* The host of a host:port text.
HostOf(hostport) ==
    LET i == LastIndex(hostport, ":")
    IN  IF i # 0 THEN SubSeq(hostport, 1, i - 1) ELSE hostport

\* The target a request to the HTTP proxy names: the host of its request
\* line, or of its Host header when the request line has none.
TargetOf(r) == IF r.urlHost # <<>> THEN r.urlHost ELSE r.headerHost

\* The target a SOCKS5 request names.
SocksTargetOf(r) == r.addr \o <<":">> \o Decimal(r.port)

\* A SOCKS5 request that reaches the filter.
WellFormed(r) ==
    r.ver = socks5Version /\ r.cmd = cmdConnect /\ r.atyp \in {atypIPv4, atypDomain, atypIPv6}

\* C26: the HTTP proxy and the SOCKS5 proxy dial only a target the domain
\* filter allows, the dialled host is the checked host, and a rejected request
\* gets 403 (HTTP) or reply 0x02 (SOCKS5) with no upstream connection.
C26_DialOnlyAllowed ==
    /\ hreq.state = "answered" /\ hreq.method # "" =>
          LET a == hreq.answer
          IN  /\ a.dialed # <<>> =>
                    /\ IsAllowed(hreq.filter, a.dialed)
                    /\ HostOf(a.dialed) = HostOf(a.checked)
                    /\ HostOf(a.dialed) = HostOf(TargetOf(hreq))
              /\ a.upstream => a.dialed # <<>>
              /\ ~IsAllowed(hreq.filter, TargetOf(hreq)) =>
                    a.status = 403 /\ ~a.upstream /\ a.dialed = <<>>
    /\ sock.readRequest =>
          /\ sock.dialed # <<>> =>
                /\ IsAllowed(sock.filter, sock.dialed)
                /\ sock.dialed = sock.checked
                /\ sock.dialed = SocksTargetOf(sock.request)
          /\ sock.upstream => sock.dialed # <<>>
          /\ WellFormed(sock.request) /\ ~IsAllowed(sock.filter, SocksTargetOf(sock.request)) =>
                /\ sock.wrote[Len(sock.wrote)] = <<socks5Version, repConnNotAllowed>>
                /\ ~sock.upstream /\ sock.dialed = <<>>

\* A plain request naming one host in its request line and another in its
\* Host header is forwarded under a filter that allows only the first.
C26_Witness ==
    /\ hreq.state = "answered" /\ hreq.method = "GET"
    /\ hreq.answer.upstream
    /\ ~hreq.filter.allowAll
    /\ hreq.headerHost # <<>> /\ ~IsAllowed(hreq.filter, hreq.headerHost)

\* A greeting the proxy must refuse.
BadGreeting(g) ==
    g.ver # socks5Version \/ ~\E i \in 1..Len(g.methods) : g.methods[i] = authNone

\* C27: a SOCKS5 greeting whose version is not 5 or that lacks NO AUTH is
\* answered NO ACCEPTABLE METHODS and the connection is closed with no
\* request read; a request is read only after an accepted greeting.
C27_BadGreetingRefused ==
    /\ sock.pc # "greeting" /\ BadGreeting(sock.greeting) =>
          /\ sock.wrote = <<<<socks5Version, authNoAccept>>>>
          /\ sock.pc = "closed"
          /\ ~sock.readRequest
    /\ sock.readRequest =>
          /\ ~BadGreeting(sock.greeting)
          /\ sock.wrote[1] = <<socks5Version, authNone>>

\* C29: the wrapper starts the forwarder first, polls the port at most 10
\* times with a 50 ms sleep after each failed attempt, runs the child after
\* the first successful attempt or the last one, kills the forwarder after
\* the child and exits with the child's status.
C29_WrapperOrder ==
    /\ wrap.pc # "start" => wrap.socat # "none"
    /\ wrap.polls <= PollAttempts
    /\ wrap.sleeps = IF wrap.connected THEN wrap.polls - 1 ELSE wrap.polls
    /\ wrap.pc \in {"child", "kill", "exit", "exited"} =>
          wrap.polls >= 1 /\ (wrap.connected \/ wrap.polls = PollAttempts)
    /\ wrap.killSent => wrap.childRan
    /\ wrap.pc = "exited" =>
          wrap.childRan /\ wrap.killSent /\ wrap.socat = "dead" /\ wrap.status = wrap.EXIT_CODE

\* The child failed with 42 behind a forwarder that came up at the third
\* attempt, and the wrapper has exited.
C29_Witness ==
    /\ wrap.pc = "exited" /\ wrap.status = 42
    /\ wrap.connected /\ wrap.polls = 3 /\ wrap.sleeps = 2

ProxyNames == {"HTTP_PROXY", "HTTPS_PROXY", "ALL_PROXY", "http_proxy", "https_proxy", "all_proxy"}

\* The entries of env that set a proxy variable and are not overridden by a
\* later entry of the same name.
LastProxyEntries(env) ==
    {i \in 1..Len(env) :
        /\ IndexEq(env[i]) = 2 /\ env[i][1] \in ProxyNames
        /\ ~\E j \in (i + 1)..Len(env) : IndexEq(env[j]) = 2 /\ env[j][1] = env[i][1]}

\* C30: under a sandboxed backend with network allowed, every endpoint the
\* proxy variables of the child's environment name is one the backend's
\* confinement lets the child connect to.
C30_ProxyEndpointsReachable ==
    (envrun.started /\ IsSandboxed(envrun.backend) /\ envrun.mgr.created) =>
        LET cfg == [Network |-> TRUE, ProxySocketPath |-> envrun.mgr.socket]
            net == ChildNet(envrun.backend, [socat |-> envrun.socat], cfg)
        IN  \A i \in LastProxyEntries(envrun.env) : envrun.env[i][3] \in Reachable(net)

====
